---- MODULE Spec2Model ----
(***************************************************************************)
(* A model of factorio-data-collector:                                      *)
(*   src/fle_actions/run_actions.py  TickScheduler, execute_action,        *)
(*                                   execute_events_from_file              *)
(*   src/fle_actions/extract.py      the normalizer and move decomposition *)
(*   src/analysis/mine_factorio_replay.py  inflate_chunks, parse_events    *)
(*   src/replay-lab/save_replays.py  FactorioLogProcessor                  *)
(* Time is counted in units of 1/120 s, so that the tick duration          *)
(* 1/60/speed is a whole number of units for the speeds 1 and 2.           *)
(***************************************************************************)
EXTENDS Integers, Sequences, FiniteSets, TLC

VARIABLES
    \* --- TickScheduler and the wall clock
    now,            \* time.time(), in units
    speed,          \* the speed multiplier given to TickScheduler(speed)
    start_time,     \* TickScheduler.start_time (None until start())
    sleep_duration, \* the argument of the pending time.sleep call
    wake_at,        \* earliest instant at which the pending time.sleep returns
    \* --- the thread that runs the scheduler (replay loop or a direct caller)
    pc,
    last,           \* the last TickScheduler call and its outcome
    \* --- execute_events_from_file
    events,         \* the loaded and sorted trace
    diff_thread,    \* dispatch mode
    enable_logging,
    i,              \* index of the event of the current loop iteration
    tick,           \* the local "tick": the event whose tick it holds (0: unbound)
    func_name,      \* the locals "func_name" and "args": the event whose parsed
                    \* call they hold (0: unbound)
    ex,             \* per event: the state of the execute_action call made for
                    \* it, the events whose call and tick were passed to it, and
                    \* the message of the error the external callable raised
    instance,       \* the FactorioInstance: "acquired" or "cleaned"
    entities_log_file,   \* module-level handles: "None" or "open"
    inventory_log_file,
    interrupted,    \* a KeyboardInterrupt has been delivered
    \* --- observation of the run (what the console output shows)
    waited,         \* events whose wait_for_tick returned, in order
    parsed,         \* events whose call string was handed to parse_function_call
    launched,       \* events for which execute_action was called or a worker started
    reported,       \* <<event, place>>: the warnings and errors printed
    lagged,         \* events whose wait_for_tick found the deadline passed
    \* --- extract.py
    move,           \* the frame of one decompose_move_to_call invocation
    norm,           \* the frame of one normalization run over a batch of records
    \* --- analysis/mine_factorio_replay.py
    mine,           \* the frame of one inflate_chunks or parse_events invocation
    \* --- run_actions.py: one execute_action call seen from the execution surface
    marshal,
    \* --- replay-lab/save_replays.py
    processor       \* a FactorioLogProcessor and the replay files it has opened

vars == <<now, speed, start_time, sleep_duration, wake_at, pc, last,
          events, diff_thread, enable_logging, i, tick, func_name, ex, instance,
          entities_log_file, inventory_log_file, interrupted,
          waited, parsed, launched, reported, lagged, move, norm, mine,
          marshal, processor>>

replayVars == <<events, diff_thread, enable_logging, i, tick, func_name, ex, instance,
                entities_log_file, inventory_log_file, interrupted,
                waited, parsed, launched, reported, lagged>>

toolVars == <<mine, marshal, processor>>

extractVars == <<move, norm, toolVars>>

----------------------------------------------------------------------------
(* Bounds and constants *)

MaxEvents == 2
MaxTick == 1
StartSlack == 1
TickUnits == 2

None == -1

Speeds == {1, 2}
Ticks == 0 .. MaxTick

----------------------------------------------------------------------------
(* TickScheduler *)

TickDuration(s) == TickUnits \div s

TargetTime(target_tick) == start_time + target_tick * TickDuration(speed)

SleepDurationOneTick(target_time, current_time) == TickDuration(speed)

SleepDuration(target_time, current_time) == target_time - current_time

\* wait_for_tick sleeps only when the deadline is still ahead
DeadlineAhead(target_time, current_time) == target_time > current_time

GetCurrentTickRaising(t) ==
    IF start_time = None THEN [outcome |-> "raised", value |-> 0]
    ELSE [outcome |-> "returned",
          value |-> (t - start_time) \div TickDuration(speed)]

GetCurrentTick(t) ==
    IF start_time = None THEN [outcome |-> "returned", value |-> 0]
    ELSE [outcome |-> "returned",
          value |-> (t - start_time) \div TickDuration(speed)]

WaitRaisesNever == FALSE

\* wait_for_tick raises ValueError("Scheduler not started...")
WaitRaises == start_time = None

\* The record kept of a TickScheduler call: the operation, its argument, the
\* reference instant it saw, when it was called and returned, whether it slept.
Call(op, arg, outcome, value, called, slept) ==
    [op |-> op, arg |-> arg, outcome |-> outcome, value |-> value,
     ref |-> start_time, called |-> called, at |-> now, slept |-> slept]

NoCall == [op |-> "none", arg |-> 0, outcome |-> "none", value |-> 0,
           ref |-> None, called |-> 0, at |-> 0, slept |-> FALSE]

----------------------------------------------------------------------------
(* A caller that drives one TickScheduler directly, in any order of calls *)

WaitTicks == Ticks \cup {60}

ReplayIdle ==
    /\ events = << >>
    /\ diff_thread = FALSE
    /\ enable_logging = FALSE
    /\ i = 1
    /\ tick = 0
    /\ func_name = 0
    /\ ex = << >>
    /\ instance = "none"
    /\ entities_log_file = "None"
    /\ inventory_log_file = "None"
    /\ interrupted = FALSE
    /\ waited = << >>
    /\ parsed = << >>
    /\ launched = << >>
    /\ reported = {}
    /\ lagged = {}

\* no function of extract.py is running
\* no function of the analysis and recording tools is running
ToolsIdle ==
    /\ mine = [pc |-> "idle"]
    /\ marshal = [pc |-> "idle"]
    /\ processor = [pc |-> "idle"]

ExtractIdle ==
    /\ move = [pc |-> "idle"]
    /\ norm = [pc |-> "idle"]
    /\ ToolsIdle

SchedInit ==
    /\ now = 0
    /\ speed \in Speeds
    /\ start_time = None
    /\ sleep_duration = 0
    /\ wake_at = 0
    /\ pc = "idle"
    /\ last = NoCall
    /\ ReplayIdle
    /\ ExtractIdle

\* The wall clock advances. time.time() is read only by start(), by
\* wait_for_tick and by time.sleep, so the model advances the clock only where
\* the scheduling thread is about to read it: time that passes elsewhere (while
\* an action executes, say) is time that has passed at the next read. In a
\* replay the clock counts from the instant at which start() is called. The
\* clock runs one unit past the deadline of the latest tick, and as far as a
\* sleeping caller needs to wake.
ClockTick ==
    /\ pc \in {"idle", "wait", "sleep_call", "sleeping"}
    /\ \/ start_time = None /\ now < StartSlack
       \/ start_time # None /\ now < TargetTime(MaxTick) + 1
       \/ pc = "sleeping" /\ now < wake_at
    /\ now' = now + 1
    /\ UNCHANGED <<speed, start_time, sleep_duration, wake_at, pc, last>>
    /\ UNCHANGED <<replayVars, extractVars>>

\* start() may be called again at any time; the model stops calling it once
\* the clock has passed StartSlack, which bounds the reference instant
CallStart ==
    /\ pc = "idle"
    /\ now <= StartSlack
    /\ start_time' = now
    /\ last' = [Call("start", 0, "returned", 0, now, FALSE) EXCEPT !.ref = now]
    /\ UNCHANGED <<now, speed, sleep_duration, wake_at, pc>>
    /\ UNCHANGED <<replayVars, extractVars>>

CallWaitForTick(k) ==
    /\ pc = "idle"
    /\ IF WaitRaises
       THEN /\ last' = Call("wait", k, "raised", 0, now, FALSE)
            /\ UNCHANGED <<pc, sleep_duration>>
       ELSE LET target_time == TargetTime(k)
                current_time == now
            IN  IF DeadlineAhead(target_time, current_time)
                THEN /\ sleep_duration' = SleepDuration(target_time, current_time)
                     /\ pc' = "sleep_call"
                     /\ last' = Call("wait", k, "pending", 0, now, TRUE)
                ELSE /\ last' = Call("wait", k, "returned", 0, now, FALSE)
                     /\ UNCHANGED <<pc, sleep_duration>>
    /\ UNCHANGED <<now, speed, start_time, wake_at>>
    /\ UNCHANGED <<replayVars, extractVars>>

\* time.sleep(sleep_duration) is entered: it returns no earlier than this
CallSleep ==
    /\ pc = "sleep_call"
    /\ wake_at' = now + sleep_duration
    /\ pc' = "sleeping"
    /\ UNCHANGED <<now, speed, start_time, sleep_duration, last>>
    /\ UNCHANGED <<replayVars, extractVars>>

CallWake ==
    /\ pc = "sleeping"
    /\ instance = "none"
    /\ now >= wake_at
    /\ pc' = "idle"
    /\ last' = [last EXCEPT !.outcome = "returned", !.at = now]
    /\ UNCHANGED <<now, speed, start_time, sleep_duration, wake_at>>
    /\ UNCHANGED <<replayVars, extractVars>>

CallGetCurrentTick ==
    /\ pc = "idle"
    /\ LET r == GetCurrentTick(now)
       IN  last' = Call("get", 0, r.outcome, r.value, now, FALSE)
    /\ UNCHANGED <<now, speed, start_time, sleep_duration, wake_at, pc>>
    /\ UNCHANGED <<replayVars, extractVars>>

SchedNext ==
    \/ ClockTick
    \/ CallStart
    \/ \E k \in WaitTicks : CallWaitForTick(k)
    \/ CallSleep
    \/ CallWake
    \/ CallGetCurrentTick

SchedSpec == SchedInit /\ [][SchedNext]_vars

----------------------------------------------------------------------------
(* parse_function_call, execute_action and the execution surface *)

\* A call string is one of three kinds: "bad" does not match name(args) (an
\* empty or missing call included), "unknown" parses and names a function the
\* namespace lacks, "known" parses and names a callable of the namespace.
Calls == {"bad", "unknown", "known"}

\* re.match(r'(\w+)\((.*)\)', call_string): no match raises ValueError
ParseFunctionCall(call) ==
    IF call = "bad" THEN [ok |-> FALSE, func_name |-> ""]
    ELSE [ok |-> TRUE, func_name |-> call]

\* hasattr(namespace, func_name)
HasAttr(name) == name = "known"

Signature == "Could not harvest. LuaEntity"

\* str(e) of the errors the external callable raises, as the parts of the message
Messages == { <<"Error: ", Signature>>, <<"Cannot reach">> }

\* What the external callable func(**filtered_args) does
ExternalOutcomes ==
    {[kind |-> "returns", msg |-> << >>]}
        \cup {[kind |-> "raises", msg |-> m] : m \in Messages}

\* str(e).startswith(signature), a stricter test than the code's
IsToleratedPrefix(msg) == Len(msg) > 0 /\ msg[1] = Signature

\* 'Could not harvest. LuaEntity' in str(e)
IsTolerated(msg) == \E j \in DOMAIN msg : msg[j] = Signature

\* "except Exception as e" of execute_action: a KeyboardInterrupt is no Exception
ExecuteActionCatches(exc_type) == exc_type = "Exception"

\* a bare "except:" would catch KeyboardInterrupt as well
DispatchCatchesAll(exc_type) == TRUE

\* no handler around the dispatch at all
DispatchCatchesNone(exc_type) == FALSE

\* "except Exception as e" around the dispatch of one event
DispatchCatches(exc_type) == exc_type = "Exception"

\* The except clause of execute_action applied to an exception raised inside its
\* try block: what leaves execute_action, and whether the error line is printed.
ExecuteActionExcept(exc_type, msg) ==
    IF ~ExecuteActionCatches(exc_type)
    THEN [leaves |-> exc_type, printed |-> FALSE, state |-> "interrupted"]
    ELSE IF IsTolerated(msg)
    THEN [leaves |-> "nothing", printed |-> FALSE, state |-> "swallowed"]
    ELSE [leaves |-> exc_type, printed |-> TRUE, state |-> "raised"]

\* The state of the execute_action call made for one event: "none" (not
\* called), "started" (its worker thread is started), "running" (inside the
\* try block), and how it ended: "unknown", "returned", "swallowed", "raised",
\* "interrupted". func and tick are the events whose parsed call and whose
\* tick it was given (0: not yet).
Ex(st, f, t, msg) == [st |-> st, func |-> f, tick |-> t, msg |-> msg]

NotCalled == Ex("none", 0, 0, << >>)

\* the call of e ends in state st, with the message msg of the error raised
Ended(e, st, msg) == [e EXCEPT !.st = st, !.msg = msg]

InFlight(k) == ex[k].st \in {"started", "running"}

UseWorkerAlways == TRUE

UseWorkerNever == FALSE

\* "if diff_thread:" of the dispatch loop
UseWorker == diff_thread

----------------------------------------------------------------------------
(* execute_events_from_file *)

Event == [tick : Ticks, call : Calls]

RECURSIVE SeqsUpTo(_)
SeqsUpTo(n) ==
    IF n = 0 THEN { << >> }
    ELSE LET shorter == SeqsUpTo(n - 1)
         IN  shorter \cup { Append(s, e) : s \in {t \in shorter : Len(t) = n - 1},
                                           e \in Event }

\* what load_events may return
LoadedTraces == SeqsUpTo(MaxEvents)

\* one step of the stable sort: e goes behind every event whose tick is <= its own
RECURSIVE InsertByTick(_, _)
InsertByTick(sorted, e) ==
    IF sorted = << >> THEN <<e>>
    ELSE IF sorted[Len(sorted)].tick <= e.tick THEN Append(sorted, e)
    ELSE Append(InsertByTick(SubSeq(sorted, 1, Len(sorted) - 1), e),
                sorted[Len(sorted)])

RECURSIVE SortByTickFrom(_, _)
SortByTickFrom(sorted, rest) ==
    IF rest = << >> THEN sorted
    ELSE SortByTickFrom(InsertByTick(sorted, Head(rest)), Tail(rest))

Unsorted(loaded) == loaded

\* events.sort(key=lambda x: x.get('tick', 0))
SortByTick(loaded) == SortByTickFrom(<< >>, loaded)

ReplayInit ==
    /\ now = 0
    /\ speed \in Speeds
    /\ start_time = None
    /\ sleep_duration = 0
    /\ wake_at = 0
    /\ pc = "reset"
    /\ last = NoCall
    /\ \E loaded \in LoadedTraces : events = SortByTick(loaded)
    /\ diff_thread \in BOOLEAN
    /\ enable_logging \in BOOLEAN
    /\ i = 1
    /\ tick = 0
    /\ func_name = 0
    /\ ex = [k \in 1 .. Len(events) |-> NotCalled]
    /\ instance = "acquired"
    /\ entities_log_file = "None"
    /\ inventory_log_file = "None"
    /\ interrupted = FALSE
    /\ waited = << >>
    /\ parsed = << >>
    /\ launched = << >>
    /\ reported = {}
    /\ lagged = {}
    /\ ExtractIdle

schedFixed == <<now, speed, start_time, sleep_duration, wake_at, last>>
inputs == <<events, diff_thread, enable_logging>>
locals == <<tick, func_name>>
files == <<entities_log_file, inventory_log_file>>
history == <<waited, parsed, launched, reported, lagged>>

\* instance.reset(): returns, or raises out of execute_events_from_file
InstanceReset ==
    /\ pc = "reset"
    /\ \E ok \in BOOLEAN : pc' = IF ok THEN "initlog" ELSE "crashed"
    /\ UNCHANGED <<schedFixed, inputs, extractVars, i, locals, ex, instance, files, interrupted, history>>

\* initialize_logging() when enable_logging: mkdir, then two open() calls, any
\* of which may raise; opened counts the files opened before that
InitializeLogging ==
    /\ pc = "initlog"
    /\ IF enable_logging
       THEN \E opened \in 0 .. 2 :
               /\ entities_log_file' = IF opened >= 1 THEN "open" ELSE "None"
               /\ inventory_log_file' = IF opened = 2 THEN "open" ELSE "None"
               /\ pc' = IF opened = 2 THEN "setspeed" ELSE "crashed"
       ELSE /\ pc' = "setspeed"
            /\ UNCHANGED files
    /\ UNCHANGED <<schedFixed, inputs, extractVars, i, locals, ex, instance, interrupted, history>>

\* instance.rcon_client.send_command('/c game.speed = ...')
SetGameSpeed ==
    /\ pc = "setspeed"
    /\ \E ok \in BOOLEAN : pc' = IF ok THEN "start" ELSE "crashed"
    /\ UNCHANGED <<schedFixed, inputs, extractVars, i, locals, ex, instance, files, interrupted, history>>

\* scheduler.start(), the first statement of the try block
SchedulerStart ==
    /\ pc = "start"
    /\ start_time' = now
    /\ pc' = "loop"
    /\ UNCHANGED <<now, speed, sleep_duration, wake_at, last>>
    /\ UNCHANGED <<inputs, extractVars, i, locals, ex, instance, files, interrupted, history>>

\* for i, event in enumerate(events)
LoopNext ==
    /\ pc = "loop"
    /\ IF i <= Len(events)
       THEN pc' = "wait" /\ tick' = i
       ELSE pc' = "final_sleep" /\ UNCHANGED tick
    /\ UNCHANGED <<schedFixed, inputs, extractVars, i, func_name, ex, instance, files>>
    /\ UNCHANGED <<interrupted, history>>

\* scheduler.wait_for_tick(tick) up to its sleep; a ValueError of an unstarted
\* scheduler is raised outside the inner try and ends the loop
WaitForTick ==
    /\ pc = "wait"
    /\ IF WaitRaises
       THEN /\ pc' = "finally"
            /\ UNCHANGED <<sleep_duration, waited, lagged>>
       ELSE LET target_time == TargetTime(events[tick].tick)
                current_time == now
            IN  IF DeadlineAhead(target_time, current_time)
                THEN /\ sleep_duration' = SleepDuration(target_time, current_time)
                     /\ pc' = "sleep_call"
                     /\ UNCHANGED <<waited, lagged>>
                ELSE /\ lagged' = lagged \cup {i}
                     /\ waited' = Append(waited, i)
                     /\ pc' = "dispatch"
                     /\ UNCHANGED sleep_duration
    /\ UNCHANGED <<now, speed, start_time, wake_at, last>>
    /\ UNCHANGED <<inputs, extractVars, i, locals, ex, instance, files, interrupted>>
    /\ UNCHANGED <<parsed, launched, reported>>

\* time.sleep returns and wait_for_tick with it
WaitWake ==
    /\ pc = "sleeping"
    /\ instance # "none"
    /\ now >= wake_at
    /\ waited' = Append(waited, i)
    /\ pc' = "dispatch"
    /\ UNCHANGED <<schedFixed, inputs, extractVars, i, locals, ex, instance, files, interrupted>>
    /\ UNCHANGED <<parsed, launched, reported, lagged>>

\* The entry of the execute_action call made for event k, given the func_name
\* and args of event f and the tick of event t: the hasattr test. An unknown
\* name prints a warning and returns None; otherwise the try block is entered.
EnterExecuteAction(k, f, t) ==
    IF HasAttr(ParseFunctionCall(events[f].call).func_name)
    THEN /\ ex' = [ex EXCEPT ![k] = Ex("running", f, t, << >>)]
         /\ UNCHANGED reported
    ELSE /\ ex' = [ex EXCEPT ![k] = Ex("unknown", f, t, << >>)]
         /\ reported' = reported \cup {<<k, "warning">>}

\* What the dispatch loop does with an exception of type exc_type raised inside
\* its inner try while event i is dispatched: print and continue, or let it go
\* to the outer handlers, which lead to the finally block.
DispatchExcept(exc_type, already) ==
    IF DispatchCatches(exc_type)
    THEN /\ reported' = reported \cup already \cup {<<i, "loop">>}
         /\ i' = i + 1
         /\ pc' = "loop"
    ELSE /\ reported' = reported \cup already
         /\ pc' = "finally"
         /\ UNCHANGED i

\* The body of the inner try for one event: parse the call, then start a worker
\* (diff_thread) or call execute_action in this thread.
Dispatch ==
    /\ pc = "dispatch"
    /\ parsed' = Append(parsed, i)
    /\ IF ~ParseFunctionCall(events[i].call).ok
       THEN /\ DispatchExcept("Exception", {})
            /\ UNCHANGED <<func_name, ex, launched>>
       ELSE /\ func_name' = i
            /\ launched' = Append(launched, i)
            /\ IF UseWorker
               THEN /\ ex' = [ex EXCEPT ![i] = Ex("started", 0, 0, << >>)]
                    /\ i' = i + 1
                    /\ pc' = "loop"
                    /\ UNCHANGED reported
               ELSE /\ EnterExecuteAction(i, i, tick)
                    /\ IF ex'[i].st = "running"
                       THEN pc' = "executing" /\ UNCHANGED i
                       ELSE pc' = "loop" /\ i' = i + 1
    /\ UNCHANGED <<schedFixed, inputs, extractVars, tick, instance, files, interrupted>>
    /\ UNCHANGED <<waited, lagged>>

\* The external call of the synchronous execute_action ends
ExecuteActionEnds ==
    /\ pc = "executing"
    /\ \E o \in ExternalOutcomes :
          IF o.kind = "returns"
          THEN /\ ex' = [ex EXCEPT ![i] = Ended(ex[i], "returned", << >>)]
               /\ i' = i + 1
               /\ pc' = "loop"
               /\ UNCHANGED reported
          ELSE LET r == ExecuteActionExcept("Exception", o.msg)
                   line == IF r.printed THEN {<<i, "execute_action">>} ELSE {}
               IN  /\ ex' = [ex EXCEPT ![i] = Ended(ex[i], r.state, o.msg)]
                   /\ IF r.leaves = "nothing"
                      THEN /\ i' = i + 1
                           /\ pc' = "loop"
                           /\ UNCHANGED reported
                      ELSE DispatchExcept(r.leaves, line)
    /\ UNCHANGED <<schedFixed, inputs, extractVars, locals, instance, files, interrupted>>
    /\ UNCHANGED <<waited, parsed, launched, lagged>>

\* The worker thread of event k runs execute_async: it reads func_name, args
\* and tick, locals of execute_events_from_file that the closure shares with
\* the dispatch loop, as they are now, and enters execute_action with them
WorkerBegins(k) ==
    /\ ex[k].st = "started"
    /\ EnterExecuteAction(k, func_name, tick)
    /\ UNCHANGED <<schedFixed, pc, inputs, extractVars, i, locals, instance, files, interrupted>>
    /\ UNCHANGED <<waited, parsed, launched, lagged>>

\* The external call of the worker of event k ends; an error that leaves
\* execute_action ends the worker thread
WorkerEnds(k) ==
    /\ ex[k].st = "running"
    /\ ~(pc = "executing" /\ i = k)
    /\ \E o \in ExternalOutcomes :
          IF o.kind = "returns"
          THEN /\ ex' = [ex EXCEPT ![k] = Ended(ex[k], "returned", << >>)]
               /\ UNCHANGED reported
          ELSE LET r == ExecuteActionExcept("Exception", o.msg)
               IN  /\ ex' = [ex EXCEPT ![k] = Ended(ex[k], r.state, o.msg)]
                   /\ reported' = reported \cup
                         (IF r.printed THEN {<<k, "execute_action">>} ELSE {})
    /\ UNCHANGED <<schedFixed, pc, inputs, extractVars, i, locals, instance, files, interrupted>>
    /\ UNCHANGED <<waited, parsed, launched, lagged>>

\* time.sleep(2.0) and the final report, after the last event
FinalSleep ==
    /\ pc = "final_sleep"
    /\ pc' = "finally"
    /\ UNCHANGED <<schedFixed, inputs, extractVars, i, locals, ex, instance, files, interrupted, history>>

\* A KeyboardInterrupt reaches the scheduling thread. Before the try block it
\* leaves execute_events_from_file; inside, it passes the handlers in turn.
Interrupt ==
    /\ pc \in {"reset", "initlog", "setspeed", "start", "loop", "wait",
               "sleep_call", "sleeping", "dispatch", "executing", "final_sleep"}
    /\ instance # "none"
    /\ interrupted' = TRUE
    /\ IF pc \in {"reset", "initlog", "setspeed"}
       THEN /\ pc' = "crashed"
            /\ UNCHANGED <<i, ex, reported>>
       ELSE IF pc = "executing"
       THEN LET r == ExecuteActionExcept("KeyboardInterrupt", << >>)
                line == IF r.printed THEN {<<i, "execute_action">>} ELSE {}
            IN  /\ ex' = [ex EXCEPT ![i] = Ended(ex[i], r.state, << >>)]
                /\ IF r.leaves = "nothing"
                   THEN /\ i' = i + 1
                        /\ pc' = "loop"
                        /\ UNCHANGED reported
                   ELSE DispatchExcept(r.leaves, line)
       ELSE IF pc = "dispatch"
       THEN /\ DispatchExcept("KeyboardInterrupt", {})
            /\ UNCHANGED ex
       ELSE /\ pc' = "finally"
            /\ UNCHANGED <<i, ex, reported>>
    /\ UNCHANGED <<schedFixed, inputs, extractVars, locals, instance, files>>
    /\ UNCHANGED <<waited, parsed, launched, lagged>>

\* cleanup_logging(): close and forget whatever handle is set
CleanupLogging(f) == "None"

\* the finally block: cleanup_logging() if enable_logging, instance.cleanup()
Finally ==
    /\ pc = "finally"
    /\ IF enable_logging
       THEN /\ entities_log_file' = CleanupLogging(entities_log_file)
            /\ inventory_log_file' = CleanupLogging(inventory_log_file)
       ELSE UNCHANGED files
    /\ instance' = "cleaned"
    /\ pc' = "done"
    /\ UNCHANGED <<schedFixed, inputs, extractVars, i, locals, ex, interrupted, history>>

ReplayNext ==
    \/ ClockTick
    \/ InstanceReset
    \/ InitializeLogging
    \/ SetGameSpeed
    \/ SchedulerStart
    \/ LoopNext
    \/ WaitForTick
    \/ CallSleep
    \/ WaitWake
    \/ Dispatch
    \/ ExecuteActionEnds
    \/ \E k \in 1 .. Len(events) : WorkerBegins(k)
    \/ \E k \in 1 .. Len(events) : WorkerEnds(k)
    \/ FinalSleep
    \/ Interrupt
    \/ Finally

Spec == ReplayInit /\ [][ReplayNext]_vars

----------------------------------------------------------------------------
(* Claims about TickScheduler, checked under SchedSpec *)

\* The deadline T + k * (1/60)/s of a call, times s (1/60 s is TickUnits units)
ScaledDeadline(c) == c.ref * speed + c.arg * TickUnits

\* C5: a wait_for_tick(k) on a started scheduler with reference instant T and
\* speed s never returns before T + k * (1/60)/s; it sleeps exactly when the
\* deadline is still ahead at the call, and otherwise returns at once.
C5_WaitNeverReturnsEarly ==
    (last.op = "wait" /\ last.outcome = "returned") =>
        /\ last.at * speed >= ScaledDeadline(last)
        /\ last.slept <=> (last.called * speed < ScaledDeadline(last))
        /\ ~last.slept => last.at = last.called

\* wait_for_tick(60) at speed 1 has slept and returned one second after T
C5_Witness ==
    /\ last.op = "wait" /\ last.outcome = "returned" /\ last.slept
    /\ last.arg = 60 /\ speed = 1
    /\ last.at = last.ref + 60 * TickUnits

\* C6: wait_for_tick on a scheduler never started raises at once, without
\* sleeping, and leaves it unstarted; after start() the scheduler is running
\* and wait_for_tick does not raise.
C6_UnstartedWaitRaises ==
    /\ (last.op = "wait" /\ last.ref = None) =>
           /\ last.outcome = "raised" /\ ~last.slept /\ last.at = last.called
           /\ start_time = None /\ pc = "idle"
    /\ (last.op = "wait" /\ last.ref # None) => last.outcome # "raised"
    /\ last.op = "start" => start_time # None
    /\ pc \in {"sleep_call", "sleeping"} => start_time # None

C6_Witness ==
    /\ last.op = "wait" /\ last.ref = None /\ last.outcome = "raised"
    /\ last.arg > 0 /\ now > 0

\* C7 as stated: every scheduling operation on an unstarted scheduler fails,
\* get_current_tick included.
C7_UnstartedGetFails ==
    (last.op \in {"wait", "get"} /\ last.ref = None) => last.outcome = "raised"

\* C7 amended: on an unstarted scheduler wait_for_tick fails at once, while
\* get_current_tick does not fail and returns tick 0.
C7_UnstartedGetReturnsZero ==
    /\ (last.op = "get" /\ last.ref = None) =>
           last.outcome = "returned" /\ last.value = 0
    /\ (last.op = "wait" /\ last.ref = None) => last.outcome = "raised"

C7_Witness ==
    last.op = "get" /\ last.ref = None /\ last.outcome = "returned" /\ last.called > 0

----------------------------------------------------------------------------
(* Claims about execute_events_from_file, checked under Spec *)

N == Len(events)

Parses(k) == events[k].call # "bad"

\* the event indices 1, 2, ..., each once, in order
InOrder(seq) == \A j \in DOMAIN seq : seq[j] = j

NonDecreasingTicks(seq) ==
    \A a, b \in DOMAIN seq : a < b => events[seq[a]].tick <= events[seq[b]].tick

ContainsSignature(msg) == \E j \in DOMAIN msg : msg[j] = Signature

\* the run left the try block without an interrupt
RanToEnd == pc \in {"finally", "done"} /\ ~interrupted

\* C1 as stated: in a run that is not interrupted every event of the trace is
\* waited for and then has execute_action called or a worker started for it,
\* exactly once, in non-decreasing tick order.
C1_EveryEventLaunched ==
    RanToEnd =>
        /\ Len(waited) = N /\ InOrder(waited)
        /\ Len(launched) = N /\ InOrder(launched)
        /\ NonDecreasingTicks(launched)

\* C1 amended: every event is waited for (whether wait_for_tick slept or found
\* the deadline passed) and then handed to the dispatch step exactly once, in
\* non-decreasing tick order; execute_action is called or a worker started
\* exactly once for every event whose call string parses, and for no other.
C1_EveryEventDispatched ==
    /\ InOrder(waited) /\ InOrder(parsed)
    /\ NonDecreasingTicks(waited) /\ NonDecreasingTicks(parsed)
    /\ Len(parsed) <= Len(waited) /\ Len(waited) <= Len(parsed) + 1
    /\ launched = SelectSeq(parsed, Parses)
    /\ lagged \subseteq {waited[j] : j \in DOMAIN waited}
    /\ RanToEnd => Len(waited) = N /\ Len(parsed) = N

\* a finished run in which one wait found its deadline passed and another slept
C1_Witness ==
    /\ pc = "done" /\ ~interrupted
    /\ N = 2 /\ launched = <<1, 2>>
    /\ lagged = {1}
    /\ events[1].tick < events[2].tick

\* the dispatch of event k failed: its call string does not parse, or the
\* execute_action call made for it found no such action or raised
Failure(k) ==
    \/ ~Parses(k)
    \/ ex[k].st = "unknown" /\ ~HasAttr(events[ex[k].func].call)
    \/ ex[k].st = "raised" /\ ~ContainsSignature(ex[k].msg)

\* C2: a failing dispatch (the call does not parse, the action is unknown, the
\* external callable raises an error that is not tolerated) is reported for
\* its own event only, and the loop goes on to wait for and dispatch every
\* later event: a run that is not interrupted leaves the loop only after the
\* last event.
C2_FailureIsolated ==
    /\ \A r \in reported : r[1] \in 1 .. N /\ Failure(r[1])
    /\ \A k \in 1 .. N :
          /\ (k < i /\ ~Parses(k)) => <<k, "loop">> \in reported
          /\ ex[k].st = "unknown" => <<k, "warning">> \in reported
          /\ ex[k].st = "raised" => <<k, "execute_action">> \in reported
          /\ (ex[k].st = "raised" /\ ~diff_thread) => <<k, "loop">> \in reported
    /\ RanToEnd => i = N + 1 /\ Len(waited) = N /\ Len(parsed) = N

\* the first event failed at the external surface, the second ran and returned
C2_Witness ==
    /\ pc = "done" /\ ~interrupted /\ ~diff_thread /\ N = 2
    /\ ex[1].st = "raised" /\ ex[2].st = "returned"
    /\ reported = {<<1, "execute_action">>, <<1, "loop">>}

\* C3: in synchronous mode at most one execution is in flight, it is that of
\* the event the loop is at, every earlier event's execution has ended and no
\* later event's has begun.
C3_SynchronousOneAtATime ==
    ~diff_thread =>
        /\ Cardinality({k \in 1 .. N : InFlight(k)}) <= 1
        /\ \A k \in 1 .. N :
              /\ InFlight(k) => (k = i /\ pc = "executing" /\ ex[k].st = "running")
              /\ ex[k].st # "none" => (ex[k].func = k /\ ex[k].tick = k)
              /\ k > i => ex[k].st = "none"
              /\ (k < i /\ Parses(k)) => ex[k].st \notin {"none", "started", "running"}

C3_Witness ==
    /\ ~diff_thread /\ N = 2 /\ pc = "executing" /\ i = 2
    /\ ex[1].st = "returned" /\ ex[2].st = "running"

\* C4: in asynchronous mode the scheduling thread executes no action itself
\* and waits for no worker: the workers of all earlier events that parse are
\* started, in non-decreasing tick order, before the wait for the next event,
\* and every worker in flight may be the next to end, whatever the others and
\* the scheduling thread are doing.
C4_AsynchronousDispatchOrder ==
    diff_thread =>
        /\ pc # "executing"
        /\ InOrder(parsed) /\ NonDecreasingTicks(launched)
        /\ launched = SelectSeq(parsed, Parses)
        /\ \A k \in 1 .. N :
              /\ (k < i /\ Parses(k)) => ex[k].st # "none"
              /\ k >= i => ex[k].st = "none"
              /\ ex[k].st = "started" => ENABLED WorkerBegins(k)
              /\ ex[k].st = "running" => ENABLED WorkerEnds(k)

\* the worker of the second event has ended while that of the first, started
\* before it, is still in flight
C4_Witness ==
    /\ diff_thread /\ N = 2
    /\ ex[1].st = "running" /\ ex[2].st = "returned"

\* C8: whenever execute_events_from_file is left after the session was
\* acquired, instance.cleanup() has run and no diagnostic log file is open.
C8_GuaranteedRelease ==
    pc \in {"done", "crashed"} =>
        /\ instance = "cleaned"
        /\ entities_log_file = "None" /\ inventory_log_file = "None"

\* C9: once a KeyboardInterrupt has reached the scheduling thread inside the
\* try block, the loop has stopped: control is at the cleanup step or past it,
\* and neither a wait nor a dispatch of a further event can happen.
C9_InterruptStopsLoop ==
    (interrupted /\ start_time # None) =>
        /\ pc \in {"finally", "done"}
        /\ ~ENABLED Dispatch /\ ~ENABLED WaitForTick /\ ~ENABLED LoopNext

\* interrupted inside a synchronous execute_action, with an event left over
C9_Witness ==
    /\ interrupted /\ pc = "finally" /\ ~diff_thread
    /\ N = 2 /\ i = 1 /\ ex[1].st = "interrupted" /\ ex[2].st = "none"

\* C10: an error of the external callable whose message contains the
\* harvesting signature is swallowed by execute_action: the call ends as a
\* normal return, no error line is printed for the event and none reaches the
\* dispatch loop.
C10_HarvestFailureSwallowed ==
    \A k \in 1 .. N :
        ContainsSignature(ex[k].msg) =>
            /\ ex[k].st = "swallowed"
            /\ <<k, "execute_action">> \notin reported
            /\ <<k, "loop">> \notin reported
            /\ ~diff_thread => (i > k /\ (~interrupted => pc # "finally" \/ i = N + 1))

C10_Witness ==
    /\ ~diff_thread /\ N = 2 /\ pc = "done" /\ ~interrupted
    /\ ContainsSignature(ex[1].msg) /\ ex[1].st = "swallowed"
    /\ ex[2].st = "returned" /\ reported = {}

----------------------------------------------------------------------------
(* Errors that leave execute_action, in both dispatch modes *)

\* execute_async (the thread target) calls execute_action with no try around
\* it: nothing in the worker catches what execute_action re-raises
ExecuteAsyncCatches(exc_type) == FALSE

\* the error raised for event k was received by a handler of the caller: the
\* dispatch loop's except clause, or one in the worker
Surfaced(k) ==
    \/ <<k, "loop">> \in reported
    \/ diff_thread /\ ExecuteAsyncCatches("Exception")

\* C11: every execution failure other than the tolerated harvest signature is
\* received by the caller of execute_action and never propagates uncaught: in
\* synchronous mode the dispatch loop catches it, in asynchronous mode it
\* does not leave the worker unhandled.
C11_FailureNeverEscapes ==
    \A k \in 1 .. N : ex[k].st = "raised" => Surfaced(k)

----------------------------------------------------------------------------
(* extract.py: decompose_move_to_call *)

(* Coordinates given to the function are counted in hundredths of a tile,    *)
(* coordinates rounded to one decimal place in tenths. Python's round() and  *)
(* float subtraction are exact here except at a tie (a value exactly half    *)
(* way between two tenths, a difference of exactly one tenth), where the     *)
(* binary representation of the operands decides: both results are allowed.  *)

\* twice MAX_DISTANCE_PER_HALF_SECOND (4.45 tiles), in tenths of a tile
TwiceMaxDistance == 89

TICKS_PER_HALF_SECOND == 30

\* the largest number of tenths a coordinate can advance in one segment
MaxStep == (TwiceMaxDistance + 1) \div 2

Abs(x) == IF x < 0 THEN -x ELSE x

Sgn(x) == IF x < 0 THEN -1 ELSE IF x > 0 THEN 1 ELSE 0

Last(seq) == seq[Len(seq)]

\* round(float(v), 1) of a coordinate that is not at a tie: hundredths to tenths
Round1(c) == (c + 5) \div 10

\* (end_x - start_x)**2 + (end_y - start_y)**2, the square of total_distance
SquaredDistance(dx, dy) == dx * dx + dy * dy

\* total_distance <= MAX_DISTANCE_PER_HALF_SECOND
WithinOneMove(dx, dy) ==
    4 * SquaredDistance(dx, dy) <= TwiceMaxDistance * TwiceMaxDistance

\* math.ceil(total_distance / MAX_DISTANCE_PER_HALF_SECOND)
NumSegments(dx, dy) ==
    LET far(n) == n * n * TwiceMaxDistance * TwiceMaxDistance
                     >= 4 * SquaredDistance(dx, dy)
    IN  CHOOSE n \in 1 .. 4 * SquaredDistance(dx, dy) :
            far(n) /\ (n = 1 \/ ~far(n - 1))

\* round(current + unit_d * MAX_DISTANCE_PER_HALF_SECOND, 1), where
\* unit_d = d / total_distance: the tenths m nearest to 44.5 * |d| / distance,
\* applied in the direction of d
NextCoordinate(current, d, dx, dy) ==
    LET S == SquaredDistance(dx, dy)
        T == TwiceMaxDistance * TwiceMaxDistance * d * d
    IN  { current + Sgn(d) * m : m \in
            { m \in 0 .. MaxStep :
                /\ m = 0 \/ (2 * m - 1) * (2 * m - 1) * S <= T
                /\ T <= (2 * m + 1) * (2 * m + 1) * S } }

\* abs(a - b) < 0.1 for two coordinates of one decimal place
CloseTo(a, b) ==
    IF a = b THEN {TRUE}
    ELSE IF Abs(a - b) = 1 THEN BOOLEAN
    ELSE {FALSE}

Min(a, b) == IF a <= b THEN a ELSE b

\* One element of the returned list: the arguments written into the move_to
\* call string, and the sort_tick beside it
MoveCall(st, et, sx, sy, ex_, ey) ==
    [start_tick |-> st, end_tick |-> et, start_x |-> sx, start_y |-> sy,
     end_x |-> ex_, end_y |-> ey, sort_tick |-> st]

\* "Update for next iteration": the position and tick the next segment starts from
\* a loop whose position and tick never advance
KeepCurrent(current, next) == current

UpdateCurrent(current, next) == next

\* the arguments the function is called with
MoveTicks == {0, 7}
MoveDurations == {0 - 5, 0, 10, 30, 45, 100, 300}
StartCoords == {0, 4, 120}
EndCoords == {0, 96, 300, 500, 1000, 1004, 2000, 0 - 700}

MoveArgs ==
    [start_tick : MoveTicks, duration : MoveDurations,
     start_x : StartCoords, start_y : {0}, end_x : EndCoords, end_y : EndCoords]

MoveInit ==
    /\ now = 0
    /\ speed = 1
    /\ start_time = None
    /\ sleep_duration = 0
    /\ wake_at = 0
    /\ pc = "off"
    /\ last = NoCall
    /\ ReplayIdle
    /\ ToolsIdle
    /\ norm = [pc |-> "idle"]
    /\ \E a \in MoveArgs :
          move = [pc |-> "entry",
                  args |-> [start_tick |-> a.start_tick,
                            end_tick |-> a.start_tick + a.duration,
                            start_x |-> a.start_x, start_y |-> a.start_y,
                            end_x |-> a.end_x, end_y |-> a.end_y]]

moveFixed == <<now, speed, start_time, sleep_duration, wake_at, pc, last,
               replayVars, toolVars, norm>>

\* Lines 99-112: the arguments are rounded; a move within one segment's
\* distance is returned as a single call over the whole tick range
DecomposeSingle ==
    /\ move.pc = "entry"
    /\ LET a == move.args
           start_x == Round1(a.start_x)
           start_y == Round1(a.start_y)
           end_x == Round1(a.end_x)
           end_y == Round1(a.end_y)
       IN  /\ WithinOneMove(end_x - start_x, end_y - start_y)
           /\ move' = [pc |-> "done", args |-> a,
                       start_x |-> start_x, start_y |-> start_y,
                       end_x |-> end_x, end_y |-> end_y,
                       calls |-> << MoveCall(a.start_tick, a.end_tick,
                                             start_x, start_y, end_x, end_y) >>]
    /\ UNCHANGED moveFixed

\* Lines 99-128: a longer move enters the loop over num_segments segments
DecomposeEnter ==
    /\ move.pc = "entry"
    /\ LET a == move.args
           start_x == Round1(a.start_x)
           start_y == Round1(a.start_y)
           end_x == Round1(a.end_x)
           end_y == Round1(a.end_y)
       IN  /\ ~WithinOneMove(end_x - start_x, end_y - start_y)
           /\ move' = [pc |-> "loop", args |-> a,
                       start_x |-> start_x, start_y |-> start_y,
                       end_x |-> end_x, end_y |-> end_y,
                       num_segments |-> NumSegments(end_x - start_x, end_y - start_y),
                       i |-> 0,
                       current_x |-> start_x, current_y |-> start_y,
                       current_tick |-> a.start_tick,
                       calls |-> << >>]
    /\ UNCHANGED moveFixed

\* Lines 130-154: one iteration of the loop
DecomposeSegment ==
    /\ move.pc = "loop"
    /\ LET m == move
           dx == m.end_x - m.start_x
           dy == m.end_y - m.start_y
           final == m.i = m.num_segments - 1
       IN  \E next_x \in IF final THEN {m.end_x}
                         ELSE NextCoordinate(m.current_x, dx, dx, dy),
              next_y \in IF final THEN {m.end_y}
                         ELSE NextCoordinate(m.current_y, dy, dx, dy) :
             LET next_tick == IF final
                              THEN Min(m.current_tick + TICKS_PER_HALF_SECOND,
                                       m.args.end_tick)
                              ELSE m.current_tick + TICKS_PER_HALF_SECOND
                 call == MoveCall(m.current_tick, next_tick,
                                  m.current_x, m.current_y, next_x, next_y)
                 cx == UpdateCurrent(m.current_x, next_x)
                 cy == UpdateCurrent(m.current_y, next_y)
                 ct == UpdateCurrent(m.current_tick, next_tick)
             IN  \E near_x \in CloseTo(cx, m.end_x), near_y \in CloseTo(cy, m.end_y) :
                   LET stop == (near_x /\ near_y) \/ ct >= m.args.end_tick
                   IN  move' = [m EXCEPT
                                  !.calls = Append(@, call),
                                  !.current_x = cx,
                                  !.current_y = cy,
                                  !.current_tick = ct,
                                  !.i = @ + 1,
                                  !.pc = IF stop \/ final THEN "done" ELSE "loop"]
    /\ UNCHANGED moveFixed

MoveNext == DecomposeSingle \/ DecomposeEnter \/ DecomposeSegment

MoveSpec == MoveInit /\ [][MoveNext]_vars

----------------------------------------------------------------------------
(* Claims about decompose_move_to_call, checked under MoveSpec *)

Returned == move.pc = "done"

\* the distance a returned segment travels is within 4.45 tiles
WithinBudget(c) == WithinOneMove(c.end_x - c.start_x, c.end_y - c.start_y)

\* C14: for every input the last segment returned ends exactly at the
\* destination rounded to one decimal place (so that the displacements of the
\* segments add up to the displacement asked for).
C14_LastSegmentAtDestination ==
    Returned =>
        /\ Last(move.calls).end_x = move.end_x
        /\ Last(move.calls).end_y = move.end_y

\* C15 as stated: consecutive segments chain in position and tick, and the
\* first segment starts at the start position and start tick that were given.
C15_ChainsFromGivenStart ==
    Returned =>
        /\ \A j \in 1 .. Len(move.calls) - 1 :
              /\ move.calls[j].end_x = move.calls[j + 1].start_x
              /\ move.calls[j].end_y = move.calls[j + 1].start_y
              /\ move.calls[j].end_tick = move.calls[j + 1].start_tick
        /\ 10 * move.calls[1].start_x = move.args.start_x
        /\ 10 * move.calls[1].start_y = move.args.start_y
        /\ move.calls[1].start_tick = move.args.start_tick

\* C15 amended: consecutive segments chain in position and tick, and the first
\* segment starts at the given start position rounded to one decimal place
\* and at the given start tick.
C15_ChainsFromRoundedStart ==
    move.pc \in {"loop", "done"} =>
        /\ \A j \in 1 .. Len(move.calls) - 1 :
              /\ move.calls[j].end_x = move.calls[j + 1].start_x
              /\ move.calls[j].end_y = move.calls[j + 1].start_y
              /\ move.calls[j].end_tick = move.calls[j + 1].start_tick
        /\ move.calls # << >> =>
              /\ move.calls[1].start_x = Round1(move.args.start_x)
              /\ move.calls[1].start_y = Round1(move.args.start_y)
              /\ move.calls[1].start_tick = move.args.start_tick

\* a returned decomposition of three segments that starts off the tenths grid
C15_Witness ==
    /\ Returned /\ Len(move.calls) = 3
    /\ move.args.start_x = 4 /\ move.calls[1].start_x = 0
    /\ move.calls[2].end_x = move.calls[3].start_x
    /\ move.calls[3].end_x = move.end_x

\* C16: no returned segment spans more than 30 ticks, the single segment of a
\* short move included, and no segment but the last travels more than 4.45
\* tiles between its rounded end points.
C16_SegmentsWithinBudget ==
    Returned =>
        \A j \in 1 .. Len(move.calls) :
            /\ move.calls[j].end_tick - move.calls[j].start_tick
                  <= TICKS_PER_HALF_SECOND
            /\ j < Len(move.calls) => WithinBudget(move.calls[j])

\* C17: the end tick of the last segment returned never exceeds the end tick
\* that was given, also when the loop stops early.
C17_EndTickNotExceeded ==
    Returned => Last(move.calls).end_tick <= move.args.end_tick

----------------------------------------------------------------------------
(* extract.py: get_time_from_record *)

(* A field of a record as json.loads delivers it: absent, null, an integer,   *)
(* a float with a fraction (n + 0.5), a string of the decimal digits of n, a  *)
(* string that is no number, a list, or the float infinity (the JSON tokens   *)
(* Infinity and 1e999).                                                       *)
Value(kind, n) == [kind |-> kind, n |-> n]

Absent == Value("absent", 0)

IntValue(n) == Value("int", n)

\* int(v): the integer, or the exception int() raises
IntOf(v) ==
    CASE v.kind = "int" -> [outcome |-> "int", n |-> v.n]
      [] v.kind = "float" -> [outcome |-> "int", n |-> v.n]
      [] v.kind = "digits" -> [outcome |-> "int", n |-> v.n]
      [] v.kind = "text" -> [outcome |-> "ValueError", n |-> 0]
      [] v.kind = "list" -> [outcome |-> "TypeError", n |-> 0]
      [] v.kind = "inf" -> [outcome |-> "OverflowError", n |-> 0]

\* record.get(name) is None
IsNone(v) == v.kind \in {"absent", "null"}

\* "except (ValueError, TypeError): pass" around each int() call
TimeCatches(exc_type) == exc_type \in {"ValueError", "TypeError"}

\* the list valid_times after one alias has been looked at, or the exception
\* that leaves the function
AppendTime(valid_times, v) ==
    IF IsNone(v) THEN [raises |-> "nothing", valid_times |-> valid_times]
    ELSE LET r == IntOf(v)
         IN  IF r.outcome = "int"
             THEN [raises |-> "nothing", valid_times |-> Append(valid_times, r.n)]
             ELSE IF TimeCatches(r.outcome)
             THEN [raises |-> "nothing", valid_times |-> valid_times]
             ELSE [raises |-> r.outcome, valid_times |-> valid_times]

\* max(valid_times) of a list of one or two integers
MaxOf(valid_times) ==
    IF Len(valid_times) = 1 \/ valid_times[1] >= valid_times[2]
    THEN valid_times[1] ELSE valid_times[2]

TimeResult(outcome, value) == [outcome |-> outcome, value |-> value]

GetTimeFromRecord(record) ==
    LET a == AppendTime(<< >>, record.t)
        b == AppendTime(a.valid_times, record.tick)
    IN  IF a.raises # "nothing" THEN TimeResult(a.raises, 0)
        ELSE IF b.raises # "nothing" THEN TimeResult(b.raises, 0)
        ELSE IF b.valid_times = << >> THEN TimeResult("ValueError", 0)
        ELSE TimeResult("returns", MaxOf(b.valid_times))

\* the values tried for each alias
TimeValues ==
    {Absent, Value("null", 0), IntValue(50), IntValue(70), Value("float", 50),
     Value("digits", 70), Value("text", 0), Value("list", 0), Value("inf", 0)}

TimeInit ==
    /\ now = 0
    /\ speed = 1
    /\ start_time = None
    /\ sleep_duration = 0
    /\ wake_at = 0
    /\ pc = "off"
    /\ last = NoCall
    /\ ReplayIdle
    /\ ToolsIdle
    /\ move = [pc |-> "idle"]
    /\ \E t \in TimeValues, tk \in TimeValues :
          norm = [pc |-> "get_time", record |-> [t |-> t, tick |-> tk]]

normFixed == <<now, speed, start_time, sleep_duration, wake_at, pc, last,
               replayVars, toolVars, move>>

\* one call of get_time_from_record
GetTime ==
    /\ norm.pc = "get_time"
    /\ norm' = [pc |-> "time", record |-> norm.record,
                result |-> GetTimeFromRecord(norm.record)]
    /\ UNCHANGED normFixed

TimeNext == GetTime

TimeSpec == TimeInit /\ [][TimeNext]_vars

\* the alias holds something int() turns into an integer
ParsesToInt(v) == v.kind \in {"int", "float", "digits"}

Larger(a, b) == IF a >= b THEN a ELSE b

\* C18: with a single alias that parses the function returns its value (t=50
\* alone gives 50); with two it returns the larger (t=50, tick=70 gives 70),
\* whichever alias holds it; an alias that is present but does not parse is
\* ignored in favour of the other.
C18_TimeIsLargerParsedAlias ==
    norm.pc = "time" =>
        LET t == norm.record.t
            tk == norm.record.tick
        IN  /\ (ParsesToInt(t) /\ ~ParsesToInt(tk)) =>
                  norm.result = TimeResult("returns", IntOf(t).n)
            /\ (ParsesToInt(tk) /\ ~ParsesToInt(t)) =>
                  norm.result = TimeResult("returns", IntOf(tk).n)
            /\ (ParsesToInt(t) /\ ParsesToInt(tk)) =>
                  norm.result = TimeResult("returns", Larger(IntOf(t).n, IntOf(tk).n))

----------------------------------------------------------------------------
(* extract.py: read_and_combine_jsonls, transform_record_to_python_call and  *)
(* save_python_calls                                                          *)

MaxRecords == 2

\* the names of the files records come from
SourceFiles == {"core-meta.jsonl", "harvest_resource_collated.jsonl", "other.jsonl"}

\* source_file.replace('.jsonl', '')
FileType(source_file) ==
    CASE source_file = "core-meta.jsonl" -> "core-meta"
      [] source_file = "harvest_resource_collated.jsonl" -> "harvest_resource_collated"
      [] OTHER -> "other"

\* is_standard_factorio_resource: the name sets, and names that start with
\* 'tree-' or 'dead-tree-' or contain 'tree'
standard_resources ==
    {"coal", "iron-ore", "copper-ore", "stone", "uranium-ore", "crude-oil"}

rock_names == {"rock-big", "rock-huge", "sand-rock-big"}

TreeNames == {"tree-01", "dead-tree-desert", "tree"}

IsStandardFactorioResource(entity_name) ==
    \/ entity_name \in standard_resources \/ entity_name \in rock_names
    \/ entity_name \in TreeNames

Entities == {"iron-ore", "wooden-chest", "crash-site-spaceship-wreck"}

\* 'crash-site' in json.dumps(record).lower()
ContainsCrashSite(record) == record.entity = "crash-site-spaceship-wreck"

(* A record: the file it came from (_source_file), its action discriminator  *)
(* ("none": no action field; "pickup_entity" stands for the instantaneous    *)
(* actions, which all take their tick from get_time_from_record; "malformed" *)
(* is a line that is not JSON), the two time aliases, the start tick of a     *)
(* craft or a movement, and for a movement whether its end is more than one   *)
(* segment away. A movement takes MoveLength ticks.                           *)
Rec(src, action, t, tk, start_tick, duration_ticks, entity, far) ==
    [src |-> src, action |-> action, t |-> t, tick |-> tk,
     start_tick |-> start_tick, duration_ticks |-> duration_ticks,
     entity |-> entity, far |-> far]

MoveLength == 45

NearEnd == 300

FarEnd == 1000

Records ==
    { Rec("other.jsonl", "craft_item", t, Absent, s, 0, "", FALSE) :
          t \in {Absent, IntValue(2)}, s \in {0, 1} }
    \cup { Rec("other.jsonl", "move_to_direction", t, Absent, 1, 0, "", far) :
          t \in {Absent, IntValue(3)}, far \in BOOLEAN }
    \cup { Rec("other.jsonl", "pickup_entity", tt[1], tt[2], 0, 0, "", FALSE) :
          tt \in { <<Absent, Absent>>, <<IntValue(2), Absent>>,
                   <<IntValue(2), IntValue(4)>>, <<Value("text", 0), Absent>>,
                   <<Value("inf", 0), Absent>> } }
    \cup { Rec("core-meta.jsonl", a, t, Absent, 0, 0, "", FALSE) :
          a \in {"none", "pickup_entity"}, t \in {Absent, IntValue(2)} }
    \cup { Rec("harvest_resource_collated.jsonl", "none", Absent, tk, 0, d, e, FALSE) :
          tk \in {Absent, IntValue(4)}, d \in {0, 2}, e \in Entities }
    \cup { Rec("other.jsonl", a, t, Absent, 0, 0, "", FALSE) :
          a \in {"none", "mystery", "malformed"}, t \in {Absent, IntValue(2)} }

RECURSIVE RecordLists(_)
RecordLists(n) ==
    IF n = 0 THEN { << >> }
    ELSE LET shorter == RecordLists(n - 1)
         IN  shorter \cup { Append(s, r) : s \in {l \in shorter : Len(l) = n - 1},
                                           r \in Records }

\* the lines of one file are read together
Grouped(lines) ==
    \A a, b, c \in DOMAIN lines :
        (a < b /\ b < c /\ lines[a].src = lines[c].src) => lines[b].src = lines[a].src

NoArg == None

\* what one entry of a call_data_list holds: the function and the tick
\* arguments written into the call string, and the sort_tick beside it
CallData(func, start_tick, end_tick, tk, sort_tick) ==
    [func |-> func, start_tick |-> start_tick, end_tick |-> end_tick,
     tick |-> tk, sort_tick |-> sort_tick]

Result(raises, calls, mv) == [raises |-> raises, calls |-> calls, move |-> mv]

\* handle_action_based_record; move |-> TRUE is the move_to_direction data
\* that the caller turns into calls
HandleActionBasedRecord(record) ==
    CASE record.action = "craft_item" ->
            Result("nothing",
                   << CallData("craft_item", record.start_tick, record.start_tick,
                               NoArg, record.start_tick) >>, FALSE)
      [] record.action = "move_to_direction" -> Result("nothing", << >>, TRUE)
      [] record.action = "pickup_entity" ->
            LET time == GetTimeFromRecord(record)
            IN  IF time.outcome # "returns" THEN Result(time.outcome, << >>, FALSE)
                ELSE Result("nothing",
                            << CallData("pickup_entity", NoArg, NoArg,
                                        time.value, time.value) >>, FALSE)
      [] OTHER -> Result("nothing", << >>, FALSE)

\* lines 318-336: the path keyed by the file type
LegacyRecord(record, file_type) ==
    LET time == GetTimeFromRecord(record)
        tk == time.value
        start_tick == tk - record.duration_ticks
    IN  IF time.outcome # "returns" THEN Result(time.outcome, << >>, FALSE)
        ELSE IF file_type = "harvest_resource_collated"
        THEN IF IsStandardFactorioResource(record.entity)
             THEN Result("nothing",
                         << CallData("harvest_resource", start_tick, tk, NoArg,
                                     start_tick) >>, FALSE)
             ELSE Result("nothing",
                         << CallData("pickup_entity", NoArg, NoArg, tk,
                                     start_tick) >>, FALSE)
        ELSE Result("nothing", << >>, FALSE)

\* transform_record_to_python_call and its _no_decompose twin, up to the
\* point where a movement is handed to decompose_move_to_call or written as
\* one call
TransformRecordToPythonCall(record, source_file) ==
    IF FileType(source_file) = "core-meta" THEN Result("nothing", << >>, FALSE)
    ELSE LET action_result == HandleActionBasedRecord(record)
         IN  IF action_result.raises # "nothing" \/ action_result.move
                   \/ action_result.calls # << >>
             THEN action_result
             ELSE LegacyRecord(record, FileType(source_file))

\* the single move_to call of transform_record_to_python_call_no_decompose
WholeMove(record) ==
    CallData("move_to", record.start_tick, record.start_tick + MoveLength,
             NoArg, record.start_tick)

\* the arguments decompose_move_to_call is given for a movement record
MoveData(record) ==
    [start_tick |-> record.start_tick, end_tick |-> record.start_tick + MoveLength,
     start_x |-> 0, start_y |-> 0,
     end_x |-> IF record.far THEN FarEnd ELSE NearEnd, end_y |-> 0]

\* python_calls.append({'tick': call_data['sort_tick'], 'call': call_data['call']})
\* for each element of a call_data_list; "from" and "emitted" remember the
\* record and the position at which an entry was appended
RECURSIVE AppendCalls(_, _, _)
AppendCalls(python_calls, call_data_list, k) ==
    IF call_data_list = << >> THEN python_calls
    ELSE AppendCalls(
            Append(python_calls,
                   [tick |-> Head(call_data_list).sort_tick,
                    call |-> [func |-> Head(call_data_list).func,
                              start_tick |-> Head(call_data_list).start_tick,
                              end_tick |-> Head(call_data_list).end_tick,
                              tick |-> Head(call_data_list).tick],
                    from |-> k, emitted |-> Len(python_calls) + 1]),
            Tail(call_data_list), k)

\* the segments decompose_move_to_call returned, as call data
RECURSIVE MoveCallData(_)
MoveCallData(calls) ==
    IF calls = << >> THEN << >>
    ELSE << CallData("move_to", Head(calls).start_tick, Head(calls).end_tick,
                     NoArg, Head(calls).sort_tick) >> \o MoveCallData(Tail(calls))

\* all_records.sort(key=get_time_from_record): a stable sort
RECURSIVE InsertByTime(_, _)
InsertByTime(sorted, r) ==
    IF sorted = << >> THEN <<r>>
    ELSE IF GetTimeFromRecord(sorted[Len(sorted)]).value <= GetTimeFromRecord(r).value
    THEN Append(sorted, r)
    ELSE Append(InsertByTime(SubSeq(sorted, 1, Len(sorted) - 1), r),
                sorted[Len(sorted)])

RECURSIVE SortByTime(_)
SortByTime(all_records) ==
    IF all_records = << >> THEN << >>
    ELSE InsertByTime(SortByTime(SubSeq(all_records, 1, Len(all_records) - 1)),
                      all_records[Len(all_records)])

Reverse(seq) == [j \in 1 .. Len(seq) |-> seq[Len(seq) + 1 - j]]

\* a sort by tick that turns round the entries of equal tick
SortReversed(python_calls) == SortByTickFrom(<< >>, Reverse(python_calls))

\* python_calls.sort(key=lambda x: x['tick']): a stable sort
SortPythonCalls(python_calls) == SortByTickFrom(<< >>, python_calls)

\* [record for record in all_records if get_time_from_record(record) <= max_time]
FilterByTime(all_records, max_time) ==
    IF max_time = None THEN all_records
    ELSE SelectSeq(all_records, LAMBDA r : GetTimeFromRecord(r).value <= max_time)

MaxTimes == {None, 2}

\* The frame of a run: "read" is read_and_combine_jsonls at a line, "save" is
\* save_python_calls at a record, "decompose" is save_python_calls waiting for
\* decompose_move_to_call, "done" is save_python_calls returned, "raised" is
\* an exception that left save_python_calls.
Frame(p, lines, max_time, decompose) ==
    [pc |-> p, lines |-> lines, max_time |-> max_time, decompose |-> decompose,
     k |-> 1, all_records |-> << >>, crash_site_filtered |-> 0, warned |-> {},
     abandoned |-> {}, records |-> IF p = "save" THEN lines ELSE << >>,
     python_calls |-> << >>, skipped_count |-> 0, error |-> "nothing"]

\* Either the pipeline of __main__ (read_and_combine_jsonls over the lines of
\* the files, then save_python_calls over what it returned), or
\* save_python_calls called with a list of records
NormInit ==
    /\ now = 0
    /\ speed = 1
    /\ start_time = None
    /\ sleep_duration = 0
    /\ wake_at = 0
    /\ pc = "off"
    /\ last = NoCall
    /\ ReplayIdle
    /\ ToolsIdle
    /\ move = [pc |-> "idle"]
    /\ \E lines \in RecordLists(MaxRecords), decompose \in BOOLEAN :
          \/ \E max_time \in MaxTimes :
                /\ Grouped(lines)
                /\ norm = Frame("read", lines, max_time, decompose)
          \/ /\ \A j \in DOMAIN lines : lines[j].action # "malformed"
             /\ norm = Frame("save", lines, None, decompose)

runActionsVars == <<now, speed, start_time, sleep_duration, wake_at, pc, last,
                    replayVars, toolVars>>

\* the first line after k that belongs to another file
NextFile(lines, k) ==
    IF \E j \in k + 1 .. Len(lines) : lines[j].src # lines[k].src
    THEN CHOOSE j \in k + 1 .. Len(lines) :
            /\ lines[j].src # lines[k].src
            /\ \A h \in k + 1 .. j - 1 : lines[h].src = lines[k].src
    ELSE Len(lines) + 1

\* Lines 423-450: one line of a file is read
ReadLine ==
    /\ norm.pc = "read"
    /\ norm.k <= Len(norm.lines)
    /\ LET record == norm.lines[norm.k]
           time == GetTimeFromRecord(record)
       IN  IF record.action = "malformed"
           THEN norm' = [norm EXCEPT !.k = @ + 1, !.warned = @ \cup {norm.k}]
           ELSE IF ContainsCrashSite(record)
           THEN norm' = [norm EXCEPT !.k = @ + 1, !.crash_site_filtered = @ + 1]
           ELSE IF time.outcome = "ValueError"
           THEN norm' = [norm EXCEPT !.k = @ + 1, !.warned = @ \cup {norm.k}]
           ELSE IF time.outcome # "returns"
           THEN norm' = [norm EXCEPT !.k = NextFile(norm.lines, norm.k),
                                     !.abandoned = @ \cup {norm.k}]
           ELSE norm' = [norm EXCEPT !.k = @ + 1,
                                     !.all_records = Append(@, record)]
    /\ UNCHANGED <<runActionsVars, move>>

\* Lines 452-465, and the call of save_python_calls on what is returned
ReadReturn ==
    /\ norm.pc = "read"
    /\ norm.k > Len(norm.lines)
    /\ norm' = [norm EXCEPT
                  !.pc = "save", !.k = 1,
                  !.all_records = SortByTime(FilterByTime(@, norm.max_time)),
                  !.records = SortByTime(FilterByTime(norm.all_records, norm.max_time))]
    /\ UNCHANGED <<runActionsVars, move>>

\* Lines 485-496: one record is transformed
SaveRecord ==
    /\ norm.pc = "save"
    /\ norm.k <= Len(norm.records)
    /\ LET record == norm.records[norm.k]
           r == TransformRecordToPythonCall(record, record.src)
       IN  IF r.raises # "nothing"
           THEN /\ norm' = [norm EXCEPT !.pc = "raised", !.error = r.raises]
                /\ UNCHANGED move
           ELSE IF r.move /\ norm.decompose
           THEN /\ norm' = [norm EXCEPT !.pc = "decompose"]
                /\ move' = [pc |-> "entry", args |-> MoveData(record)]
           ELSE LET call_data_list == IF r.move THEN << WholeMove(record) >>
                                      ELSE r.calls
                IN  /\ norm' = [norm EXCEPT
                                  !.k = @ + 1,
                                  !.python_calls = AppendCalls(@, call_data_list, norm.k),
                                  !.skipped_count =
                                      IF call_data_list = << >> THEN @ + 1 ELSE @]
                    /\ UNCHANGED move
    /\ UNCHANGED runActionsVars

\* decompose_move_to_call has returned its segments to save_python_calls
SaveDecomposed ==
    /\ norm.pc = "decompose"
    /\ move.pc = "done"
    /\ norm' = [norm EXCEPT
                  !.pc = "save", !.k = @ + 1,
                  !.python_calls = AppendCalls(@, MoveCallData(move.calls), norm.k)]
    /\ move' = [pc |-> "idle"]
    /\ UNCHANGED runActionsVars

\* Lines 498-510: the calls are sorted and written
SaveSorted ==
    /\ norm.pc = "save"
    /\ norm.k > Len(norm.records)
    /\ norm' = [norm EXCEPT !.pc = "done",
                            !.python_calls = SortPythonCalls(@)]
    /\ UNCHANGED <<runActionsVars, move>>

NormNext ==
    \/ ReadLine
    \/ ReadReturn
    \/ SaveRecord
    \/ DecomposeSingle
    \/ DecomposeEnter
    \/ DecomposeSegment
    \/ SaveDecomposed
    \/ SaveSorted

NormSpec == NormInit /\ [][NormNext]_vars

----------------------------------------------------------------------------
(* Claims about the normalizer, checked under NormSpec *)

Saved == norm.pc = "done"

\* C12: the trace save_python_calls writes is sorted by non-decreasing tick,
\* entries of equal tick stand in the order in which they were appended, and
\* the replayer's sort of the loaded events by tick leaves that order as it is.
C12_TraceSortedAndStable ==
    Saved =>
        /\ \A a, b \in DOMAIN norm.python_calls :
              a < b =>
                 /\ norm.python_calls[a].tick <= norm.python_calls[b].tick
                 /\ norm.python_calls[a].tick = norm.python_calls[b].tick
                       => norm.python_calls[a].emitted < norm.python_calls[b].emitted
        /\ SortByTick(norm.python_calls) = norm.python_calls

\* a written trace of three calls in which the sort moved the last appended
\* call forward, behind an earlier call of the same tick
C12_Witness ==
    /\ Saved /\ Len(norm.python_calls) = 3
    /\ norm.python_calls[1].tick = norm.python_calls[2].tick
    /\ norm.python_calls[1].emitted = 1
    /\ norm.python_calls[2].emitted = 3
    /\ norm.python_calls[3].emitted = 2

HasDuration(func) == func \in {"craft_item", "harvest_resource", "move_to"}

\* C13: every emitted action that has a duration is sorted by the start tick
\* written in its own arguments, every instantaneous action by its tick
\* argument.
C13_SortTickIsOwnTick ==
    \A j \in DOMAIN norm.python_calls :
        LET e == norm.python_calls[j]
        IN  IF HasDuration(e.call.func)
            THEN e.tick = e.call.start_tick
            ELSE e.tick = e.call.tick

\* neither alias of the record parses to an integer
Timeless(record) == GetTimeFromRecord(record).outcome # "returns"

BatchEnded == norm.pc \in {"done", "raised"}

Count(seq, P(_)) == Cardinality({j \in DOMAIN seq : P(seq[j])})

\* C19: a record without a usable time field is left out of the trace and
\* counted as skipped, and no exception leaves the batch: the run ends with
\* save_python_calls returning.
C19_TimelessRecordSkipped ==
    BatchEnded =>
        /\ norm.pc = "done"
        /\ \A j \in DOMAIN norm.python_calls :
              ~Timeless(norm.records[norm.python_calls[j].from])
        /\ norm.skipped_count >=
              Count(norm.lines, LAMBDA r : r.action # "malformed" /\ Timeless(r))

CoreMeta(record) == FileType(record.src) = "core-meta"

\* neither the action field nor the source file of the record is known
Unrecognized(record) ==
    record.action \in {"none", "mystery"} /\ FileType(record.src) = "other"

\* C20: a core-meta record yields no action whatever it holds; a record whose
\* action and source kind are both unrecognized yields no action, is counted
\* by skipped_count, and raises nothing.
C20_UnknownYieldsNothing ==
    /\ \A j \in DOMAIN norm.python_calls :
          LET r == norm.records[norm.python_calls[j].from]
          IN  ~CoreMeta(r) /\ ~Unrecognized(r)
    /\ norm.pc = "raised" =>
          ~CoreMeta(norm.records[norm.k]) /\ ~Unrecognized(norm.records[norm.k])
    /\ Saved =>
          norm.skipped_count >=
              Count(norm.records, LAMBDA r : CoreMeta(r) \/ Unrecognized(r))

----------------------------------------------------------------------------
(* The collated-harvest path through the pipeline, checked under NormSpec *)

\* a collated-harvest record whose end tick resolves
Harvest(record) ==
    /\ record.action = "none"
    /\ FileType(record.src) = "harvest_resource_collated"
    /\ ~Timeless(record)

\* the entries of the written trace that came from a record equal to r
EntriesOf(r) ==
    {j \in DOMAIN norm.python_calls :
        norm.records[norm.python_calls[j].from] = r}

\* C21: a collated-harvest record with end tick t and duration d yields
\* exactly one action: a harvest_resource over [t - d, t] if the entity is a
\* standard resource, otherwise a pickup_entity placed in the trace at tick t
\* (the crash-site-spaceship-wreck included).
C21_HarvestOrPickup ==
    (Saved /\ norm.max_time = None) =>
        \A k \in DOMAIN norm.lines :
            LET r == norm.lines[k]
                t == GetTimeFromRecord(r).value
            IN  Harvest(r) =>
                  /\ Cardinality(EntriesOf(r)) =
                        Count(norm.lines, LAMBDA l : l = r)
                  /\ \A j \in EntriesOf(r) :
                        LET e == norm.python_calls[j]
                        IN  IF IsStandardFactorioResource(r.entity)
                            THEN /\ e.call.func = "harvest_resource"
                                 /\ e.call.start_tick = t - r.duration_ticks
                                 /\ e.call.end_tick = t
                            ELSE /\ e.call.func = "pickup_entity"
                                 /\ e.call.tick = t
                                 /\ e.tick = t

----------------------------------------------------------------------------
(* Termination and size of a decomposition, checked under MoveSpec *)

\* the move from (0, 0) at tick 0 to (20, 0) at tick 300
Example ==
    move.args = [start_tick |-> 0, end_tick |-> 300, start_x |-> 0, start_y |-> 0,
                 end_x |-> 2000, end_y |-> 0]

\* twice the length, in tenths of a tile, of segment j of an east-bound move
TwiceLength(j) == 2 * (move.calls[j].end_x - move.calls[j].start_x)

\* C24: the function terminates for every input (zero distance, zero or
\* negative tick range included) and returns at least one segment: exactly one
\* over the whole tick range when the distance is at most 4.45, otherwise at
\* most ceil(distance / 4.45); the move from (0, 0) at tick 0 to (20, 0) at
\* tick 300 gives 5 segments of length 4.45, 4.45, 4.45, 4.45 and 2.2, the last
\* ending at (20.0, 0.0).
C24_TerminatesWithinSegments ==
    /\ move.pc = "entry" => ENABLED (DecomposeSingle \/ DecomposeEnter)
    /\ move.pc = "loop" =>
          /\ move.i < move.num_segments /\ Len(move.calls) = move.i
          /\ ENABLED DecomposeSegment
    /\ Returned =>
          LET dx == move.end_x - move.start_x
              dy == move.end_y - move.start_y
          IN  /\ Len(move.calls) >= 1
              /\ WithinOneMove(dx, dy) =>
                    /\ Len(move.calls) = 1
                    /\ move.calls[1].start_tick = move.args.start_tick
                    /\ move.calls[1].end_tick = move.args.end_tick
              /\ ~WithinOneMove(dx, dy) => Len(move.calls) <= NumSegments(dx, dy)
    /\ (Returned /\ Example) =>
          /\ Len(move.calls) = 5
          /\ \A j \in 1 .. 4 : TwiceLength(j) = TwiceMaxDistance
          /\ 5 * TwiceLength(5) = 220
          /\ move.calls[5].end_x = 200 /\ move.calls[5].end_y = 0

----------------------------------------------------------------------------
(* analysis/mine_factorio_replay.py: inflate_chunks                        *)
(* A byte is a number in 0 .. 255 and a byte string is a sequence of them. *)

MaxBlocks == 2

\* Python's raw[a:b] for 0 <= a <= b: the bytes at offsets a .. b - 1 that exist
Slice(raw, a, b) == SubSeq(raw, a + 1, IF b < Len(raw) THEN b ELSE Len(raw))

\* int.from_bytes(b, "little")
RECURSIVE FromBytesLittle(_)
FromBytesLittle(b) ==
    IF b = << >> THEN 0 ELSE b[1] + 256 * FromBytesLittle(Tail(b))

\* the four bytes of a u32_le length prefix
U32LE(n) == <<n % 256, (n \div 256) % 256, (n \div 65536) % 256, n \div 16777216>>

RECURSIVE Sum(_)
Sum(b) == IF b = << >> THEN 0 ELSE b[1] + Sum(Tail(b))

\* the check value that ends a zlib stream
Checksum(data) == (1 + Sum(data)) % 251

\* A zlib stream that stores its data uncompressed: the header byte, the length
\* of the data, the data, the check value of the data.
Compress(data) == <<120, Len(data)>> \o data \o <<Checksum(data)>>

\* zlib.decompress(block): the stored data, or the zlib.error it raises. Bytes
\* that follow a complete stream are ignored.
Decompress(block) ==
    IF Len(block) = 0 THEN [error |-> "incomplete or truncated stream"]
    ELSE IF block[1] # 120 THEN [error |-> "incorrect header check"]
    ELSE IF Len(block) < 2 \/ Len(block) < block[2] + 3
         THEN [error |-> "incomplete or truncated stream"]
    ELSE IF block[block[2] + 3] # Checksum(SubSeq(block, 3, block[2] + 2))
         THEN [error |-> "incorrect data check"]
    ELSE [data |-> SubSeq(block, 3, block[2] + 2)]

Inflates(block) == "data" \in DOMAIN Decompress(block)

\* the replay container: <u32_le compressed_len> <zlib_block>, repeated
RECURSIVE Container(_)
Container(blocks) ==
    IF blocks = << >> THEN << >>
    ELSE U32LE(Len(blocks[1])) \o blocks[1] \o Container(Tail(blocks))

RECURSIVE Concat(_)
Concat(seqs) == IF seqs = << >> THEN << >> ELSE seqs[1] \o Concat(Tail(seqs))

\* the stored data of the blocks of a replay
BlockData == {<< >>, <<7>>, <<0, 9>>}

\* a block whose check value is wrong
Damaged(block) == [block EXCEPT ![Len(block)] = (block[Len(block)] + 1) % 256]

\* The files given to inflate_chunks: a container of well-formed blocks cut
\* after any number of bytes (all of them: not cut), or a whole container with
\* one damaged block.
ReplayFiles ==
    LET lists == UNION {[1 .. n -> BlockData] : n \in 0 .. MaxBlocks}
        Streams(data) == [j \in DOMAIN data |-> Compress(data[j])]
    IN  {[data |-> d, blocks |-> Streams(d), cut |-> c, damaged |-> 0,
          raw |-> SubSeq(Container(Streams(d)), 1, c)] :
            <<d, c>> \in {<<d, c>> \in lists \X (0 .. MaxBlocks * 9) :
                            c <= Len(Container(Streams(d)))}}
        \cup
        {[data |-> d[1], cut |-> Len(Container(Streams(d[1]))), damaged |-> d[2],
          blocks |-> [Streams(d[1]) EXCEPT ![d[2]] = Damaged(@)],
          raw |-> Container([Streams(d[1]) EXCEPT ![d[2]] = Damaged(@)])] :
            d \in {d \in lists \X (1 .. MaxBlocks) : d[2] <= Len(d[1])}}

InflateInit ==
    /\ now = 0
    /\ speed = 1
    /\ start_time = None
    /\ sleep_duration = 0
    /\ wake_at = 0
    /\ pc = "off"
    /\ last = NoCall
    /\ ReplayIdle
    /\ move = [pc |-> "idle"]
    /\ norm = [pc |-> "idle"]
    /\ marshal = [pc |-> "idle"]
    /\ processor = [pc |-> "idle"]
    /\ \E file \in ReplayFiles :
          mine = [pc |-> "inflate_chunks", file |-> file, raw |-> file.raw,
                  cursor |-> 0, out |-> << >>]

mineFixed == <<now, speed, start_time, sleep_duration, wake_at, pc, last,
               replayVars, move, norm, marshal, processor>>

\* Lines 39-41: fewer than four bytes are left for a length prefix
InflateTruncatedTail ==
    /\ mine.pc = "inflate_chunks"
    /\ mine.cursor < Len(mine.raw)
    /\ mine.cursor + 4 > Len(mine.raw)
    /\ mine' = [mine EXCEPT !.pc = "returned"]
    /\ UNCHANGED mineFixed

\* Lines 42-46: one block is sliced out by its declared length and inflated;
\* a zlib.error raised by zlib.decompress is caught nowhere in the function
InflateBlock ==
    /\ mine.pc = "inflate_chunks"
    /\ mine.cursor < Len(mine.raw)
    /\ mine.cursor + 4 <= Len(mine.raw)
    /\ LET block_len == FromBytesLittle(Slice(mine.raw, mine.cursor, mine.cursor + 4))
           block == Slice(mine.raw, mine.cursor + 4, mine.cursor + 4 + block_len)
       IN  mine' = IF Inflates(block)
                   THEN [mine EXCEPT !.cursor = mine.cursor + 4 + block_len,
                                     !.out = mine.out \o Decompress(block).data]
                   ELSE [pc |-> "raised", file |-> mine.file, raw |-> mine.raw,
                         cursor |-> mine.cursor + 4 + block_len, out |-> mine.out,
                         error |-> Decompress(block).error]
    /\ UNCHANGED mineFixed

\* Lines 38, 47: the cursor is at the end of the input
InflateReturn ==
    /\ mine.pc = "inflate_chunks"
    /\ mine.cursor >= Len(mine.raw)
    /\ mine' = [mine EXCEPT !.pc = "returned"]
    /\ UNCHANGED mineFixed

InflateNext == InflateTruncatedTail \/ InflateBlock \/ InflateReturn

InflateSpec == InflateInit /\ [][InflateNext]_vars

InflateEnded == mine.pc \in {"returned", "raised"}

\* the blocks of a file that lie wholly before its cut
RECURSIVE WholeBlocks(_, _)
WholeBlocks(blocks, cut) ==
    IF blocks = << >> \/ cut < 4 + Len(blocks[1]) THEN 0
    ELSE 1 + WholeBlocks(Tail(blocks), cut - 4 - Len(blocks[1]))

\* the file ends inside a block whose length prefix is whole
CutInsideBlock ==
    LET w == WholeBlocks(mine.file.blocks, mine.file.cut)
    IN  /\ mine.file.damaged = 0
        /\ mine.file.cut >= Len(Container(SubSeq(mine.file.blocks, 1, w))) + 4
        /\ w < Len(mine.file.blocks)

\* C22: on a file that ends inside a block (its length prefix present, fewer
\* bytes after it than declared) or inside a length prefix, inflate_chunks does
\* not raise and returns the concatenation of the blocks decoded before the
\* partial tail.
C22_TruncatedTailDropped ==
    (InflateEnded /\ mine.file.damaged = 0) =>
        /\ mine.pc = "returned"
        /\ mine.out = Concat(SubSeq(mine.file.data, 1,
                                    WholeBlocks(mine.file.blocks, mine.file.cut)))

\* the part of C22 about a tail too short for a length prefix
C22_ShortPrefixDropped ==
    (InflateEnded /\ mine.file.damaged = 0 /\ ~CutInsideBlock) =>
        /\ mine.pc = "returned"
        /\ mine.out = Concat(SubSeq(mine.file.data, 1,
                                    WholeBlocks(mine.file.blocks, mine.file.cut)))

\* the data of the blocks of a file other than block j
Others(data, j) == Concat([k \in 1 .. Len(data) - 1 |-> data[IF k < j THEN k ELSE k + 1]])

\* C23: when one block fails to inflate, the failure is confined to that
\* block: the decoder goes on past it by its declared length, and every
\* other well-formed block is decoded and is in the output, in order.
C23_FailureConfinedToBlock ==
    (InflateEnded /\ mine.file.damaged # 0) =>
        /\ mine.pc = "returned"
        /\ mine.out = Others(mine.file.data, mine.file.damaged)

----------------------------------------------------------------------------
(* analysis/mine_factorio_replay.py: parse_events *)

MaxFrames == 2

\* n bytes of value b
Rep(b, n) == [j \in 1 .. n |-> b]

\* One event of a replay stream: the 7-byte header [action_id, tick, player_id],
\* a 12-byte payload and NUL padding.
StreamEvents ==
    {<<a, t, 0, 0, 0, 1, 0>> \o Rep(b, 12) \o Rep(0, pad) :
        <<a, t, b, pad>> \in {0, 4} \X {0, 3} \X {0, 9} \X (0 .. 2)}

\* what can follow the last event: nothing, less than a header, a whole header
StreamTails == {<< >>, <<5>>, <<5, 0, 0, 0, 0, 0>>, <<4, 1, 0, 0, 0, 2, 0>>}

InflatedStreams ==
    {Concat(s[1]) \o s[2] :
        s \in (UNION {[1 .. n -> StreamEvents] : n \in 0 .. MaxFrames}) \X StreamTails}

\* the cursor left where the stride put it
NoSkip(stream, c) == c

\* Lines 64-65: the first offset from c on that is past the end or not NUL
RECURSIVE SkipNul(_, _)
SkipNul(stream, c) ==
    IF c < Len(stream) /\ stream[c + 1] = 0 THEN SkipNul(stream, c + 1) ELSE c

\* Lines 59-61: the header at offset c, as the tuple (tick, player, action_id)
Header(stream, c) ==
    [tick |-> FromBytesLittle(Slice(stream, c + 1, c + 5)),
     player |-> FromBytesLittle(Slice(stream, c + 5, c + 7)),
     action |-> stream[c + 1]]

ParseInit ==
    /\ now = 0
    /\ speed = 1
    /\ start_time = None
    /\ sleep_duration = 0
    /\ wake_at = 0
    /\ pc = "off"
    /\ last = NoCall
    /\ ReplayIdle
    /\ move = [pc |-> "idle"]
    /\ norm = [pc |-> "idle"]
    /\ marshal = [pc |-> "idle"]
    /\ processor = [pc |-> "idle"]
    /\ \E stream \in InflatedStreams :
          mine = [pc |-> "parse_events", stream |-> stream, i |-> 0,
                  events |-> << >>, at |-> << >>]

\* Lines 58-65: one iteration of the loop. "at" records the offsets at which
\* a header was read.
ParseFrame ==
    /\ mine.pc = "parse_events"
    /\ mine.i + 7 <= Len(mine.stream)
    /\ mine' = [mine EXCEPT !.events = Append(@, Header(mine.stream, mine.i)),
                            !.at = Append(@, mine.i),
                            !.i = SkipNul(mine.stream, mine.i + 19)]
    /\ UNCHANGED mineFixed

\* Lines 58, 66-67: fewer than 7 bytes remain
ParseReturn ==
    /\ mine.pc = "parse_events"
    /\ mine.i + 7 > Len(mine.stream)
    /\ mine' = [mine EXCEPT !.pc = "returned"]
    /\ UNCHANGED mineFixed

ParseNext == ParseFrame \/ ParseReturn

ParseSpec == ParseInit /\ [][ParseNext]_vars

\* c is the cursor that follows a frame at offset b: 19 bytes on, then past
\* every NUL byte that follows immediately
Follows(stream, b, c) ==
    /\ c >= b + 19
    /\ \A o \in b + 19 .. c - 1 : o < Len(stream) /\ stream[o + 1] = 0
    /\ c >= Len(stream) \/ stream[c + 1] # 0

----------------------------------------------------------------------------
(* Asynchronous dispatch, checked under Spec *)

\* C27: in asynchronous mode the worker started for event N executes event
\* N's action: the action name, the arguments and the tick it hands to
\* execute_action are those of event N, never those of a later event the
\* dispatch loop has moved on to.
C27_WorkerExecutesOwnEvent ==
    diff_thread =>
        \A k \in DOMAIN ex :
            ex[k].st \notin {"none", "started"} =>
                /\ events[ex[k].func].call = events[k].call
                /\ events[ex[k].tick].tick = events[k].tick

\* C28: in asynchronous mode every started worker has finished before
\* cleanup_logging() and instance.cleanup() run, on normal completion and on
\* interrupt, so no worker calls the execution surface or writes to the log
\* files after the session is released.
C28_WorkersDoneBeforeRelease ==
    (diff_thread /\ instance = "cleaned") => \A k \in DOMAIN ex : ~InFlight(k)

\* the same on runs that no interrupt ended
C28_WorkersDoneOnCompletion ==
    (diff_thread /\ instance = "cleaned" /\ ~interrupted) =>
        \A k \in DOMAIN ex : ~InFlight(k)

----------------------------------------------------------------------------
(* replay-lab/save_replays.py: FactorioLogProcessor *)

MaxLines == 4

\* The log lines, by what the patterns and json.loads make of them:
\*   "blank"      empty after strip()
\*   "other"      matches neither pattern
\*   "checksum"   matches checksum_pattern
\*   the rest match script_pattern, with the text after "control.lua:N: " being
\*   "game_start" {"t": 0, "p": 1, "ev": "on_player_joined_game"}
\*   "event"      another non-empty JSON object
\*   "empty"      the JSON object {}
\*   "list"       a non-empty JSON array
\*   "badjson"    not JSON
LogLines == {"blank", "other", "checksum", "game_start", "event", "empty", "list", "badjson"}

ChecksumPattern(line) == line = "checksum"

ScriptPattern(line) == line \in {"game_start", "event", "empty", "list", "badjson"}

\* json.loads(match.group(1)) raises JSONDecodeError
JsonDecodeError(line) == line = "badjson"

\* Lines 62-73, extract_json_data: the parsed data, or None
ExtractJsonData(line) ==
    IF ~ScriptPattern(line) \/ JsonDecodeError(line) THEN "None" ELSE line

\* the truth value of "if json_data:"
Truthy(json_data) == json_data \in {"game_start", "event", "list"}

\* the handles of the replay files; 0 stands for None
NoFile == 0

\* Lines 75-90, start_new_replay_file
StartNewReplayFile(p) ==
    [p EXCEPT !.opened = p.opened + 1,
              !.open = (p.open \ {p.current_replay_file}) \cup {p.opened + 1},
              !.current_replay_file = p.opened + 1,
              !.recording = TRUE]

\* Lines 92-102, stop_recording
StopRecording(p) ==
    [p EXCEPT !.open = p.open \ {p.current_replay_file},
              !.current_replay_file = NoFile,
              !.recording = FALSE]

\* Lines 36-60, is_replay_start: its result ("False", "checksum", "game_start"
\* or "AttributeError" when data.get is called on a JSON array) and the flag
IsReplayStart(p, line) ==
    IF ChecksumPattern(line)
    THEN [result |-> "checksum", checksum_detected |-> TRUE]
    ELSE IF ScriptPattern(line) /\ p.checksum_detected
    THEN IF JsonDecodeError(line)
         THEN [result |-> "False", checksum_detected |-> TRUE]
         ELSE IF line = "list"
         THEN [result |-> "AttributeError", checksum_detected |-> TRUE]
         ELSE IF line = "game_start"
         THEN [result |-> "game_start", checksum_detected |-> FALSE]
         ELSE [result |-> "False", checksum_detected |-> TRUE]
    ELSE [result |-> "False", checksum_detected |-> p.checksum_detected]

\* Lines 131-142: the data of a script line is written to the open file; the
\* progress report calls json_data.get, which a JSON array does not have
SaveJsonData(p, line) ==
    IF p.recording /\ Truthy(ExtractJsonData(line))
    THEN [p EXCEPT !.written = Append(@, [file |-> p.current_replay_file,
                                          line |-> line, awaited |-> p.awaiting]),
                   !.pc = IF line = "list" THEN "raised" ELSE @]
    ELSE p

\* Lines 104-142, process_log_line. "awaiting" notes that a checksum line has
\* been processed and no game-start line since.
ProcessLogLineOf(p0, line) ==
    LET seen == [p0 EXCEPT !.n = @ + 1,
                           !.awaiting = IF line = "checksum" THEN TRUE
                                        ELSE IF line = "game_start" THEN FALSE
                                        ELSE @]
        p1 == IF seen.immediate_start /\ ~seen.recording /\ Truthy(ExtractJsonData(line))
              THEN StartNewReplayFile(seen) ELSE seen
        r == IsReplayStart(p1, line)
        p2 == [p1 EXCEPT !.checksum_detected = r.checksum_detected]
    IN  IF line = "blank" THEN seen
        ELSE IF r.result = "AttributeError" THEN [p2 EXCEPT !.pc = "raised"]
        ELSE IF r.result = "checksum"
        THEN IF p2.recording THEN StopRecording(p2) ELSE p2
        ELSE IF r.result = "game_start"
        THEN SaveJsonData(StartNewReplayFile(p2), line)
        ELSE SaveJsonData(p2, line)

\* Lines 10-34: a new processor
ProcessorInit ==
    /\ now = 0
    /\ speed = 1
    /\ start_time = None
    /\ sleep_duration = 0
    /\ wake_at = 0
    /\ pc = "off"
    /\ last = NoCall
    /\ ReplayIdle
    /\ move = [pc |-> "idle"]
    /\ norm = [pc |-> "idle"]
    /\ mine = [pc |-> "idle"]
    /\ marshal = [pc |-> "idle"]
    /\ \E immediate_start \in BOOLEAN :
          processor = [pc |-> "tail_log", recording |-> FALSE,
                       current_replay_file |-> NoFile, checksum_detected |-> FALSE,
                       immediate_start |-> immediate_start,
                       opened |-> 0, open |-> {}, written |-> << >>,
                       awaiting |-> FALSE, n |-> 0]

processorFixed == <<now, speed, start_time, sleep_duration, wake_at, pc, last,
                    replayVars, move, norm, mine, marshal>>

\* Lines 159-160: tail_log hands the next line of the log to process_log_line
ProcessLogLine ==
    /\ processor.pc = "tail_log"
    /\ processor.n < MaxLines
    /\ \E line \in LogLines : processor' = ProcessLogLineOf(processor, line)
    /\ UNCHANGED processorFixed

\* Lines 169-172: an exception of process_log_line ends tail_log
TailLogExcept ==
    /\ processor.pc = "raised"
    /\ processor' = [(IF processor.recording THEN StopRecording(processor)
                      ELSE processor) EXCEPT !.pc = "stopped"]
    /\ UNCHANGED processorFixed

\* Lines 162-166: a KeyboardInterrupt ends tail_log
TailLogInterrupt ==
    /\ processor.pc = "tail_log"
    /\ processor' = [(IF processor.recording THEN StopRecording(processor)
                      ELSE processor) EXCEPT !.pc = "stopped"]
    /\ UNCHANGED processorFixed

ProcessorNext == ProcessLogLine \/ TailLogExcept \/ TailLogInterrupt

ProcessorSpec == ProcessorInit /\ [][ProcessorNext]_vars

\* recording is true exactly when a replay file is open, and at most one is
RecordingIffOneFileOpen ==
    processor.pc # "idle" =>
        /\ processor.recording <=> processor.current_replay_file # NoFile
        /\ processor.open = IF processor.recording
                            THEN {processor.current_replay_file} ELSE {}

\* C30: for every sequence of log lines, after a checksum line (which stops
\* any current recording) no script-event line is written to any replay file
\* until the game-start event (t=0, p=1, on_player_joined_game) arrives; and at
\* every point recording is true exactly when a replay file is open, with at
\* most one replay file open at a time.
C30_NothingWrittenBeforeGameStart ==
    processor.pc # "idle" =>
        /\ \A j \in DOMAIN processor.written : ~processor.written[j].awaited
        /\ processor.recording <=> processor.current_replay_file # NoFile
        /\ Cardinality(processor.open) <= 1

\* the first part of C30 for a processor made with immediate_start=False
C30_NothingWrittenWithoutImmediateStart ==
    (processor.pc # "idle" /\ ~processor.immediate_start) =>
        \A j \in DOMAIN processor.written : ~processor.written[j].awaited

----------------------------------------------------------------------------
(* run_actions.py: the argument marshalling of execute_action, applied to  *)
(* the calls extract.py writes                                             *)

MaxItems == 2

\* Argument values. A call string carries quoted text and numbers; the items
\* of an extract_item or insert_item record travel as the text of the list
\* (str(items)), '' for no items.
Str(s) == [type |-> "str", s |-> s]
Num(n) == [type |-> "int", n |-> n]
ItemsText(items) == IF items = << >> THEN Str("") ELSE [type |-> "str", items |-> items]

\* what the marshaller builds
Position(x, y) == [type |-> "Position", x |-> x, y |-> y]
PrototypeValue(name) == [type |-> "Prototype", name |-> name]
TechnologyValue(name) == [type |-> "Technology", name |-> name]
DirectionValue(n) == [type |-> "Direction", n |-> n]

\* fle.env.game_types: the names with a Prototype, the values of Technology
prototype_by_name == {"iron-ore", "coal", "stone-furnace", "wooden-chest"}
TechnologyNames == {"automation"}

\* prototype_by_name[name], or the name itself with a warning
Resolve(name) == IF name \in prototype_by_name THEN PrototypeValue(name) ELSE Str(name)

\* one entry of an items list: the item and its count (None: no 'count' key)
ItemInfos ==
    {[item |-> "iron-ore", count |-> 5], [item |-> "coal", count |-> 2],
     [item |-> "mystery", count |-> None]}

\* item_info.get('count', 1)
CountOf(item_info) == IF item_info.count = None THEN 1 ELSE item_info.count

ItemLists == UNION {[1 .. n -> ItemInfos] : n \in 0 .. MaxItems}

\* The records of the action-based schema and the collated harvest records,
\* with the fields the normalizer reads
ActionRecords ==
    {[action |-> "craft_item", tick |-> 3, recipe |-> "iron-gear-wheel", count |-> c] :
        c \in {1, 2}}
    \cup {[action |-> "move_to_direction", tick |-> 3, x |-> 1, y |-> 2]}
    \cup {[action |-> a, tick |-> 3, entity |-> e, x |-> 1, y |-> 2] :
            <<a, e>> \in {"pickup_entity", "harvest"} \X {"iron-ore", "wooden-chest"}}
    \cup {[action |-> "place_entity", tick |-> 3, item |-> e, x |-> 1, y |-> 2,
           direction |-> 4] : e \in {"stone-furnace", "mystery"}}
    \cup {[action |-> a, tick |-> 3, entity |-> e, x |-> 1, y |-> 2, items |-> l] :
            <<a, e, l>> \in {"extract_item", "insert_item"} \X {"stone-furnace", "mystery"}
                              \X ItemLists}
    \cup {[action |-> "rotate_entity", tick |-> 3, entity |-> "stone-furnace",
           x |-> 1, y |-> 2]}
    \cup {[action |-> "set_entity_recipe", tick |-> 3, entity |-> "stone-furnace",
           new_recipe |-> "iron-gear-wheel", x |-> 1, y |-> 2]}
    \cup {[action |-> "research_started", tick |-> 3, research |-> r] :
            r \in {"automation", "mystery"}}

\* extract.py lines 171-281 and 320-333, then parse_function_call: the name
\* and the keyword arguments of the call written for a record
PythonCall(r) ==
    IF r.action = "craft_item"
    THEN [func_name |-> "craft_item",
          args |-> ("start_tick" :> Num(r.tick)) @@ ("end_tick" :> Num(r.tick + 1))
                   @@ ("recipe" :> Str(r.recipe)) @@ ("count" :> Num(r.count))]
    ELSE IF r.action = "move_to_direction"
    THEN [func_name |-> "move_to",
          args |-> ("start_tick" :> Num(r.tick)) @@ ("end_tick" :> Num(r.tick + 1))
                   @@ ("start_x" :> Num(0)) @@ ("start_y" :> Num(0))
                   @@ ("end_x" :> Num(r.x)) @@ ("end_y" :> Num(r.y))]
    ELSE IF r.action = "pickup_entity"
            \/ (r.action = "harvest" /\ ~IsStandardFactorioResource(r.entity))
    THEN [func_name |-> "pickup_entity",
          args |-> ("tick" :> Num(r.tick)) @@ ("entity" :> Str(r.entity))
                   @@ ("x" :> Num(r.x)) @@ ("y" :> Num(r.y))]
    ELSE IF r.action = "harvest"
    THEN [func_name |-> "harvest_resource",
          args |-> ("start_tick" :> Num(r.tick - 1)) @@ ("end_tick" :> Num(r.tick))
                   @@ ("entity" :> Str(r.entity))
                   @@ ("x" :> Num(r.x)) @@ ("y" :> Num(r.y))]
    ELSE IF r.action = "place_entity"
    THEN [func_name |-> "place_entity",
          args |-> ("tick" :> Num(r.tick)) @@ ("item" :> Str(r.item))
                   @@ ("x" :> Num(r.x)) @@ ("y" :> Num(r.y))
                   @@ ("direction" :> Num(r.direction))]
    ELSE IF r.action \in {"extract_item", "insert_item"}
    THEN [func_name |-> r.action,
          args |-> ("tick" :> Num(r.tick)) @@ ("entity" :> Str(r.entity))
                   @@ ("entity_x" :> Num(r.x)) @@ ("entity_y" :> Num(r.y))
                   @@ ("items" :> ItemsText(r.items))]
    ELSE IF r.action = "rotate_entity"
    THEN [func_name |-> "rotate_entity",
          args |-> ("tick" :> Num(r.tick)) @@ ("entity" :> Str(r.entity))
                   @@ ("x" :> Num(r.x)) @@ ("y" :> Num(r.y))
                   @@ ("old_direction" :> Num(0)) @@ ("new_direction" :> Num(2))]
    ELSE IF r.action = "set_entity_recipe"
    THEN [func_name |-> "set_entity_recipe",
          args |-> ("tick" :> Num(r.tick)) @@ ("entity" :> Str(r.entity))
                   @@ ("new_recipe" :> Str(r.new_recipe))
                   @@ ("x" :> Num(r.x)) @@ ("y" :> Num(r.y))]
    ELSE [func_name |-> "set_research",
          args |-> ("tick" :> Num(r.tick)) @@ ("research" :> Str(r.research))]

\* Lines 216-217: the timing arguments are removed
FilteredArgs(args) ==
    [k \in DOMAIN args \ {"start_tick", "end_tick", "tick"} |-> args[k]]

\* the arguments named in keys, each under its new name
Renamed(args, keys, to) ==
    [n \in {to[k] : k \in keys \cap DOMAIN args} |->
        args[CHOOSE k \in keys \cap DOMAIN args : to[k] = n]]

\* 'x' in filtered_args and 'y' in filtered_args: a Position under the name at
PositionArg(args, x, y, at) ==
    IF {x, y} \subseteq DOMAIN args
    THEN at :> Position(args[x].n, args[y].n) ELSE << >>

\* every item of the list
EveryItem(items_list) == items_list

\* the items of the list that are marshalled: items_list[:1]
FirstItems(items_list) == SubSeq(items_list, 1, 1)

\* What the marshalling of one call comes to: no call at all ("skip"), an
\* exception raised inside the try block ("raise"), or the calls made on the
\* namespace function. "log" tells whether the logging step is passed on the
\* way, "lookup" whether namespace.get_entities is asked for the target.
NoCallMade == [kind |-> "skip", calls |-> << >>, log |-> FALSE, lookup |-> FALSE]

Raised(exc) == [kind |-> "raise", exc |-> exc, calls |-> << >>, log |-> FALSE,
                lookup |-> FALSE]

OneCall(call_args, lookup) ==
    [kind |-> "call", calls |-> <<call_args>>, log |-> TRUE, lookup |-> lookup]

\* Lines 219-263: extract_item with items given as text
ExtractItems(filtered_args) ==
    LET items_str == filtered_args["items"]
    IN  IF items_str = Str("") THEN NoCallMade
        ELSE [kind |-> "call", log |-> FALSE, lookup |-> FALSE,
              calls |-> [j \in DOMAIN FirstItems(items_str.items) |->
                  ("entity" :> Resolve(items_str.items[j].item))
                  @@ ("source" :> Position(filtered_args["entity_x"].n,
                                           filtered_args["entity_y"].n))
                  @@ ("quantity" :> Num(CountOf(items_str.items[j])))]]

\* Lines 307-354: insert_item. found: get_entities returned an entity.
InsertItem(filtered_args, found) ==
    LET items_str == filtered_args["items"]
        known == filtered_args["entity"].s \in prototype_by_name
        target == IF known /\ found
                  THEN [type |-> "Entity", name |-> filtered_args["entity"].s]
                  ELSE Position(filtered_args["entity_x"].n, filtered_args["entity_y"].n)
    IN  IF items_str = Str("") THEN Raised("JSONDecodeError")
        ELSE OneCall(("entity" :> Resolve(items_str.items[1].item))
                     @@ ("quantity" :> Num(CountOf(items_str.items[1])))
                     @@ ("target" :> target), known)

\* Lines 413-434: set_research
SetResearch(filtered_args) ==
    IF "technology" \in DOMAIN filtered_args
    THEN OneCall("technology" :>
                    (IF filtered_args["technology"].s \in TechnologyNames
                     THEN TechnologyValue(filtered_args["technology"].s)
                     ELSE filtered_args["technology"]), FALSE)
    ELSE OneCall(<< >>, FALSE)

\* Lines 214-434: the calls execute_action makes for func_name and args
Marshal(name, args, found) ==
    LET filtered_args == FilteredArgs(args)
    IN  IF name = "extract_item" /\ "items" \in DOMAIN filtered_args
        THEN ExtractItems(filtered_args)
        ELSE IF name = "move_to"
        THEN OneCall(IF {"end_x", "end_y"} \subseteq DOMAIN filtered_args
                     THEN PositionArg(filtered_args, "end_x", "end_y", "position")
                     ELSE filtered_args, FALSE)
        ELSE IF name = "harvest_resource"
        THEN OneCall(IF {"x", "y"} \subseteq DOMAIN filtered_args
                     THEN PositionArg(filtered_args, "x", "y", "position")
                     ELSE filtered_args, FALSE)
        ELSE IF name = "place_entity"
        THEN OneCall((IF "item" \in DOMAIN filtered_args
                      THEN "entity" :> Resolve(filtered_args["item"].s) ELSE << >>)
                     @@ PositionArg(filtered_args, "x", "y", "position")
                     @@ (IF "direction" \in DOMAIN filtered_args
                         THEN "direction" :> DirectionValue(filtered_args["direction"].n)
                         ELSE << >>), FALSE)
        ELSE IF name = "craft_item"
        THEN OneCall(Renamed(filtered_args, DOMAIN filtered_args,
                             [k \in DOMAIN filtered_args |->
                                 IF k = "recipe" THEN "entity"
                                 ELSE IF k = "count" THEN "quantity" ELSE k]), FALSE)
        ELSE IF name = "insert_item"
        THEN InsertItem(filtered_args, found)
        ELSE IF name = "extract_item"
        THEN OneCall(PositionArg(filtered_args, "entity_x", "entity_y", "source"), FALSE)
        ELSE IF name = "pickup_entity"
        THEN OneCall((IF "entity" \in DOMAIN filtered_args
                      THEN "entity" :> Resolve(filtered_args["entity"].s) ELSE << >>)
                     @@ PositionArg(filtered_args, "x", "y", "position"), FALSE)
        ELSE IF name = "set_research"
        THEN SetResearch(filtered_args)
        ELSE OneCall(filtered_args, FALSE)

MarshalInit ==
    /\ now = 0
    /\ speed = 1
    /\ start_time = None
    /\ sleep_duration = 0
    /\ wake_at = 0
    /\ pc = "off"
    /\ last = NoCall
    /\ ReplayIdle
    /\ move = [pc |-> "idle"]
    /\ norm = [pc |-> "idle"]
    /\ mine = [pc |-> "idle"]
    /\ processor = [pc |-> "idle"]
    /\ \E record \in ActionRecords, has \in BOOLEAN, logging \in BOOLEAN :
          marshal = [pc |-> "execute_action", record |-> record,
                     func_name |-> PythonCall(record).func_name,
                     args |-> PythonCall(record).args,
                     hasattr |-> has, enable_logging |-> logging,
                     pending |-> << >>, calls |-> << >>, queries |-> << >>,
                     printed |-> {}]

marshalFixed == <<now, speed, start_time, sleep_duration, wake_at, pc, last,
                  replayVars, move, norm, mine, processor>>

\* Lines 207-448 up to the call of the namespace function: the hasattr test,
\* the marshalling, the target lookup and the logging step
ExecuteActionMarshal ==
    /\ marshal.pc = "execute_action"
    /\ IF ~marshal.hasattr
       THEN marshal' = [marshal EXCEPT !.pc = "returned", !.printed = {"warning"}]
       ELSE \E found \in BOOLEAN :
              LET m == Marshal(marshal.func_name, marshal.args, found)
                  lookup == IF m.lookup THEN <<"get_entities">> ELSE << >>
                  log == IF m.log /\ marshal.enable_logging
                         THEN <<"get_entities", "inspect_inventory">> ELSE << >>
              IN  IF m.kind = "skip"
                  THEN marshal' = [marshal EXCEPT !.pc = "returned",
                                                  !.printed = {"skipping"}]
                  ELSE IF m.kind = "raise"
                  THEN marshal' = [marshal EXCEPT !.pc = "raised",
                                                  !.printed = {"error"}]
                  ELSE marshal' = [marshal EXCEPT !.pc = "dispatch",
                                                  !.pending = m.calls,
                                                  !.queries = lookup \o log]
    /\ UNCHANGED marshalFixed

\* Lines 257-261, 445-455: the namespace function is called with the
\* marshalled arguments; its error goes through the except clause
SurfaceCall ==
    /\ marshal.pc = "dispatch"
    /\ \E o \in ExternalOutcomes :
          LET called == [marshal EXCEPT !.calls = Append(@, Head(marshal.pending)),
                                        !.pending = Tail(@)]
          IN  IF o.kind = "returns"
              THEN marshal' = [called EXCEPT
                                  !.pc = IF called.pending = << >> THEN "returned" ELSE @]
              ELSE marshal' = [called EXCEPT
                                  !.pc = ExecuteActionExcept("Exception", o.msg).state]
    /\ UNCHANGED marshalFixed

MarshalNext == ExecuteActionMarshal \/ SurfaceCall

MarshalSpec == MarshalInit /\ [][MarshalNext]_vars

\* execute_action is over
Marshalled == marshal.pc \in {"returned", "swallowed", "raised"}

LooksFor(name) ==
    IF name = "move_to" THEN {"end_x", "end_y"}
    ELSE IF name = "harvest_resource" THEN {"x", "y"}
    ELSE IF name = "place_entity" THEN {"item", "x", "y", "direction"}
    ELSE IF name = "craft_item" THEN {"recipe", "count"}
    ELSE IF name \in {"insert_item", "extract_item"}
    THEN {"items", "entity_x", "entity_y"}
    ELSE IF name = "pickup_entity" THEN {"entity", "x", "y"}
    ELSE IF name = "set_research" THEN {"technology"}
    ELSE {}

\* the name a marshalled value stands for
NameOf(v) == IF v.type = "str" THEN v.s ELSE v.name

\* C29: the normalizer and the marshaller agree on the argument names of
\* every action kind the normalizer writes; for a research_started record the
\* set_research call made on the execution surface receives the record's
\* research name as its technology argument.
C29_ArgumentNamesAgree ==
    marshal.pc # "idle" =>
        \A j \in DOMAIN marshal.calls :
            /\ LooksFor(marshal.func_name) \subseteq DOMAIN marshal.args
            /\ (marshal.record.action = "research_started") =>
                  /\ "technology" \in DOMAIN marshal.calls[j]
                  /\ NameOf(marshal.calls[j]["technology"]) = marshal.record.research

\* the agreement of names for every function but set_research
C29_NamesAgreeButResearch ==
    (marshal.pc # "idle" /\ marshal.func_name # "set_research") =>
        \A j \in DOMAIN marshal.calls :
            LooksFor(marshal.func_name) \subseteq DOMAIN marshal.args

====
